---- MODULE Spec2Model ----
(***************************************************************************)
(* Cross-source record reconciliation of the RCT finder: the deduplication *)
(* engine (deduplication.py, models.py, utils.py) and the rule-based       *)
(* specialty classifier (classification.py).                               *)
(*                                                                         *)
(* Text is modelled as a sequence of symbols.  A symbol is an indivisible  *)
(* run of characters: one character ("a", "A", " ", "?") or a longer run   *)
(* that the code only ever treats as a whole ("https://doi.org/", "10.1/", *)
(* "Smith").  Python's None is the one-symbol sequence None, which no text *)
(* of the model contains.                                                  *)
(***************************************************************************)
EXTENDS Integers, Sequences, FiniteSets, TLC

\* ------------------------------------------------------------------ bounds

\* Longest input list handed to deduplicate_records.
MaxRecords == 3

\* ------------------------------------------------------- Python primitives

None == <<"None">>

\* `not s` for an Optional[str]: None and the empty string are both falsy.
Falsy(s) == s = None \/ s = <<>>

\* str.lower() on one symbol.
lower_sym(c) ==
    CASE c = "A" -> "a"
      [] c = "B" -> "b"
      [] c = "C" -> "c"
      [] c = "L" -> "l"
      [] c = "T" -> "t"
      [] c = "X" -> "x"
      [] c = "Y" -> "y"
      [] c = "HTTPS://DOI.ORG/" -> "https://doi.org/"
      [] c = "HTTP://DOI.ORG/" -> "http://doi.org/"
      [] c = "HTTPS://DX.DOI.ORG/" -> "https://dx.doi.org/"
      [] c = "HTTP://DX.DOI.ORG/" -> "http://dx.doi.org/"
      [] c = "DOI:" -> "doi:"
      [] c = "PMC" -> "pmc"
      [] c = "Smith" -> "smith"
      [] c = "SMITH" -> "smith"
      [] c = "Jones" -> "jones"
      [] c = "John" -> "john"
      [] c = "Randomized" -> "randomized"
      [] c = "RANDOMISED" -> "randomised"
      [] c = "Controlled" -> "controlled"
      [] c = "Trial" -> "trial"
      [] c = "Retrospective" -> "retrospective"
      [] OTHER -> c

\* str.lower()
str_lower(s) == [i \in 1..Len(s) |-> lower_sym(s[i])]

\* The symbols for which str.isalnum() is true (letters and digits).
AlnumSyms ==
    {"a","b","c","d","e","f","g","h","i","j","k","l","m","n","o","p","q",
     "r","s","t","u","v","w","x","y","z","A","B","C","L","T","X","Y","0","1","2",
     "Smith","SMITH","smith","Jones","jones","John","john"}

isalnum(c) == c \in AlnumSyms

\* str.isspace() on one symbol.
isspace(c) == c = " "

RECURSIVE lstrip(_)
lstrip(s) == IF s # <<>> /\ isspace(Head(s)) THEN lstrip(Tail(s)) ELSE s

RECURSIVE rstrip(_)
rstrip(s) ==
    IF s # <<>> /\ isspace(s[Len(s)]) THEN rstrip(SubSeq(s, 1, Len(s) - 1)) ELSE s

\* str.strip()
str_strip(s) == lstrip(rstrip(s))

\* str.startswith(prefix)
startswith(s, prefix) ==
    Len(s) >= Len(prefix) /\ SubSeq(s, 1, Len(prefix)) = prefix

\* s[n:] and s[:n]
drop(s, n) == SubSeq(s, n + 1, Len(s))
take(s, n) == SubSeq(s, 1, IF Len(s) < n THEN Len(s) ELSE n)

\* The last element of s.split(): the final maximal run of non-whitespace
\* symbols.  Only called on a string that holds one.
RECURSIVE last_run(_)
last_run(s) ==
    IF s = <<>> \/ isspace(s[Len(s)]) THEN <<>>
    ELSE Append(last_run(SubSeq(s, 1, Len(s) - 1)), s[Len(s)])

split_last(s) == last_run(rstrip(s))

\* s.split(',')[0]: the text before the first comma (all of s when none).
RECURSIVE before_comma(_)
before_comma(s) ==
    IF s = <<>> \/ Head(s) = "," THEN <<>>
    ELSE <<Head(s)>> \o before_comma(Tail(s))

has_comma(s) == \E i \in 1..Len(s) : s[i] = ","

\* `x in lst` and the append-if-absent loop of merge_with.
in_list(x, lst) == \E i \in 1..Len(lst) : lst[i] = x

\* The loop without its `not in` test: list.extend.
extend_all(mine, theirs) == mine \o theirs

\* The loop with insert(0, x) for append(x).
RECURSIVE extend_unique_in_front(_, _)
extend_unique_in_front(mine, theirs) ==
    IF theirs = <<>> THEN mine
    ELSE extend_unique_in_front(IF in_list(Head(theirs), mine) THEN mine
                                ELSE <<Head(theirs)>> \o mine,
                                Tail(theirs))

RECURSIVE extend_unique(_, _)
extend_unique(mine, theirs) ==
    IF theirs = <<>> THEN mine
    ELSE extend_unique(IF in_list(Head(theirs), mine) THEN mine
                       ELSE Append(mine, Head(theirs)),
                       Tail(theirs))

\* ------------------------------------------------------------------ utils.py

DOI_PREFIXES ==
    << <<"https://doi.org/">>, <<"http://doi.org/">>, <<"https://dx.doi.org/">>,
       <<"http://dx.doi.org/">>, <<"doi:">> >>

\* The loop over prefixes: the first one that matches is removed, then break.
RECURSIVE strip_prefix(_, _)
strip_prefix(doi, k) ==
    IF k > Len(DOI_PREFIXES) THEN doi
    ELSE IF startswith(doi, DOI_PREFIXES[k]) THEN drop(doi, Len(DOI_PREFIXES[k]))
    ELSE strip_prefix(doi, k + 1)

normalize_doi(doi) ==
    IF Falsy(doi) THEN None
    ELSE LET d == strip_prefix(str_lower(str_strip(doi)), 1)
         IN IF d # <<>> THEN d ELSE None

normalize_title(title) ==
    IF Falsy(title) THEN <<>>
    ELSE LET RECURSIVE keep(_)
             keep(s) == IF s = <<>> THEN <<>>
                        ELSE IF isalnum(Head(s)) THEN <<lower_sym(Head(s))>> \o keep(Tail(s))
                        ELSE keep(Tail(s))
         IN keep(title)

NGRAM == 3

ngrams(norm) == {SubSeq(norm, i, i + NGRAM - 1) : i \in 1..(Len(norm) - NGRAM + 1)}

\* title_similarity returns a float; here the exact fraction <<num, den>>.
\* 0.0 is <<0, 1>> and 1.0 is <<1, 1>>.
title_similarity(title1, title2) ==
    IF Falsy(title1) \/ Falsy(title2) THEN <<0, 1>>
    ELSE LET norm1 == normalize_title(title1)
             norm2 == normalize_title(title2)
         IN IF norm1 = <<>> \/ norm2 = <<>> THEN <<0, 1>>
            ELSE IF Len(norm1) < NGRAM \/ Len(norm2) < NGRAM
                 THEN (IF norm1 = norm2 THEN <<1, 1>> ELSE <<0, 1>>)
            ELSE LET ngrams1 == ngrams(norm1)
                     ngrams2 == ngrams(norm2)
                     intersection == Cardinality(ngrams1 \cap ngrams2)
                     union == Cardinality(ngrams1 \cup ngrams2)
                 IN IF union > 0 THEN <<intersection, union>> ELSE <<0, 1>>

\* ----------------------------------------------------------------- models.py

\* RCTRecord() with every field at its default.  publication_year is an
\* Optional[int]: None is modelled as 0, which every test of the year in the
\* code (`a and b`, `year or ""`) treats exactly as it treats None.
RCTRecord ==
    [source_primary |-> "", sources_found_in |-> <<>>,
     pmid |-> None, pmcid |-> None, doi |-> None,
     s2PaperId |-> None, openalex_id |-> None, crossref_doi |-> None,
     scopus_id |-> None, wos_id |-> None, dimensions_id |-> None,
     title |-> <<>>, authors |-> <<>>, journal |-> None, issn |-> None,
     publication_date |-> None, publication_year |-> 0, language |-> None,
     abstract |-> None, mesh_terms |-> <<>>, keywords |-> <<>>,
     fields_of_study |-> <<>>, url |-> None, publisher |-> None,
     is_preprint |-> FALSE, rct_flag |-> FALSE]

\* title_norm is cut to this many characters in the fuzzy key.
KEY_TITLE_LEN == 100

\* A dedup key f"doi:{..}", f"pmid:{..}", f"pmcid:{..}" or
\* f"fuzzy:{title}|{author}|{year}" as the record of its parts; kind
\* "IndexError" stands for the exception raised by `split()[-1]` on a first
\* author that is empty or only whitespace.
DedupKey(kind, a, b, y) == [kind |-> kind, a |-> a, b |-> b, y |-> y]

get_dedup_key(self) ==
    IF ~Falsy(self.doi) THEN DedupKey("doi", str_lower(self.doi), <<>>, 0)
    ELSE IF ~Falsy(self.pmid) THEN DedupKey("pmid", self.pmid, <<>>, 0)
    ELSE IF ~Falsy(self.pmcid) THEN DedupKey("pmcid", self.pmcid, <<>>, 0)
    ELSE IF self.authors # <<>> /\ str_strip(self.authors[1]) = <<>>
         THEN DedupKey("IndexError", <<>>, <<>>, 0)
    ELSE DedupKey("fuzzy",
                  take(normalize_title(self.title), KEY_TITLE_LEN),
                  IF self.authors # <<>> THEN str_lower(split_last(self.authors[1]))
                  ELSE <<>>,
                  self.publication_year)

\* `if not self.x and other.x: self.x = other.x`
\* The assignment without the test of self's value.
fill_if_present(mine, theirs) ==
    IF ~Falsy(theirs) THEN theirs ELSE mine

fill_if_absent(mine, theirs) ==
    IF Falsy(mine) /\ ~Falsy(theirs) THEN theirs ELSE mine

\* merge_with treating title, authors and publication date as metadata to fill.
merge_with_core_fields(self, other) ==
    [self EXCEPT
        !.sources_found_in = extend_unique(@, other.sources_found_in),
        !.pmid = fill_if_absent(@, other.pmid),
        !.pmcid = fill_if_absent(@, other.pmcid),
        !.doi = fill_if_absent(@, other.doi),
        !.s2PaperId = fill_if_absent(@, other.s2PaperId),
        !.openalex_id = fill_if_absent(@, other.openalex_id),
        !.crossref_doi = fill_if_absent(@, other.crossref_doi),
        !.scopus_id = fill_if_absent(@, other.scopus_id),
        !.wos_id = fill_if_absent(@, other.wos_id),
        !.dimensions_id = fill_if_absent(@, other.dimensions_id),
        !.title = fill_if_absent(@, other.title),
        !.authors = fill_if_absent(@, other.authors),
        !.publication_date = fill_if_absent(@, other.publication_date),
        !.abstract = fill_if_absent(@, other.abstract),
        !.journal = fill_if_absent(@, other.journal),
        !.issn = fill_if_absent(@, other.issn),
        !.publisher = fill_if_absent(@, other.publisher),
        !.url = fill_if_absent(@, other.url),
        !.language = fill_if_absent(@, other.language),
        !.mesh_terms = extend_unique(@, other.mesh_terms),
        !.keywords = extend_unique(@, other.keywords),
        !.fields_of_study = extend_unique(@, other.fields_of_study)]

merge_with(self, other) ==
    [self EXCEPT
        !.sources_found_in = extend_unique(@, other.sources_found_in),
        !.pmid = fill_if_absent(@, other.pmid),
        !.pmcid = fill_if_absent(@, other.pmcid),
        !.doi = fill_if_absent(@, other.doi),
        !.s2PaperId = fill_if_absent(@, other.s2PaperId),
        !.openalex_id = fill_if_absent(@, other.openalex_id),
        !.crossref_doi = fill_if_absent(@, other.crossref_doi),
        !.scopus_id = fill_if_absent(@, other.scopus_id),
        !.wos_id = fill_if_absent(@, other.wos_id),
        !.dimensions_id = fill_if_absent(@, other.dimensions_id),
        !.abstract = fill_if_absent(@, other.abstract),
        !.journal = fill_if_absent(@, other.journal),
        !.issn = fill_if_absent(@, other.issn),
        !.publisher = fill_if_absent(@, other.publisher),
        !.url = fill_if_absent(@, other.url),
        !.language = fill_if_absent(@, other.language),
        !.mesh_terms = extend_unique(@, other.mesh_terms),
        !.keywords = extend_unique(@, other.keywords),
        !.fields_of_study = extend_unique(@, other.fields_of_study)]

\* ---------------------------------------------------------- deduplication.py

\* _get_first_author_lastname without the "LastName, FirstName" case.
_get_first_author_lastname_no_comma(authors) ==
    IF authors = <<>> THEN <<>>
    ELSE LET first_author == str_strip(authors[1])
         IN IF first_author = <<>> THEN <<>> ELSE split_last(first_author)

_get_first_author_lastname(authors) ==
    IF authors = <<>> THEN <<>>
    ELSE LET first_author == str_strip(authors[1])
         IN IF first_author = <<>> THEN <<>>
            ELSE IF has_comma(first_author) THEN str_strip(before_comma(first_author))
            ELSE split_last(first_author)

\* The threshold test with `<=` for `<`.
below_threshold_inclusive(similarity) == 10 * similarity[1] <= 9 * similarity[2]

\* `if similarity < 0.9: continue`, on the exact fraction.  A quotient of
\* two title-sized integers that equals 9/10 rounds to the double 0.9, and
\* one below 9/10 rounds below it, so the float test decides as this does.
below_threshold(similarity) == 10 * similarity[1] < 9 * similarity[2]

\* One pass of the loop body of _find_fuzzy_match: TRUE when no `continue`
\* is taken for this candidate.
fuzzy_accepts(record, candidate) ==
    LET record_author == _get_first_author_lastname(record.authors)
        candidate_author == _get_first_author_lastname(candidate.authors)
    IN /\ ~(record.publication_year # 0 /\ candidate.publication_year # 0
            /\ record.publication_year # candidate.publication_year)
       /\ ~Falsy(candidate.title)
       /\ ~below_threshold(title_similarity(record.title, candidate.title))
       /\ ~(record_author # <<>> /\ candidate_author # <<>>
            /\ str_lower(record_author) # str_lower(candidate_author))

\* The scan that returns the accepted candidate of highest title similarity,
\* the earliest of them when several share it.
_find_fuzzy_match_best(record, candidates) ==
    IF Falsy(record.title) THEN 0
    ELSE LET hits == {j \in 1..Len(candidates) : fuzzy_accepts(record, candidates[j])}
             sim(j) == title_similarity(record.title, candidates[j].title)
             better(a, b) == \/ sim(a)[1] * sim(b)[2] > sim(b)[1] * sim(a)[2]
                             \/ sim(a)[1] * sim(b)[2] = sim(b)[1] * sim(a)[2] /\ a <= b
         IN IF hits = {} THEN 0
            ELSE CHOOSE j \in hits : \A k \in hits : better(j, k)

\* The position in candidates of the record returned, 0 for None.
_find_fuzzy_match(record, candidates) ==
    IF Falsy(record.title) THEN 0
    ELSE LET hits == {j \in 1..Len(candidates) : fuzzy_accepts(record, candidates[j])}
         IN IF hits = {} THEN 0
            ELSE CHOOSE j \in hits : \A k \in hits : j <= k

\* ---------------------------------------------------------- classification.py

w_cardiac == <<"c","a","r","d","i","a","c">>
w_heart == <<"h","e","a","r","t">>
w_dvt == <<"d","v","t">>
w_cancer == <<"c","a","n","c","e","r">>
w_tumor == <<"t","u","m","o","r">>
w_brain == <<"b","r","a","i","n">>
w_ms == <<"m","s">>
w_ed == <<"e","d">>
w_trauma == <<"t","r","a","u","m","a">>
w_adult == <<"a","d","u","l","t">>
w_humans == <<"h","u","m","a","n","s">>
w_circulation == <<"c","i","r","c","u","l","a","t","i","o","n">>
w_cardiac_arrest == <<"c","a","r","d","i","a","c"," ","a","r","r","e","s","t">>

\* The specialties of MEDICAL_SPECIALTY_TERMS kept in the model, in the order of
\* the table (a dict: its iteration order is its insertion order).
SPECIALTIES == <<"Cardiology", "Oncology", "Neurology", "Emergency Medicine">>

\* Some of the terms of each kept specialty.
MEDICAL_SPECIALTY_TERMS(specialty) ==
    CASE specialty = "Cardiology" -> {w_cardiac, w_heart, w_dvt}
      [] specialty = "Oncology" -> {w_cancer, w_tumor}
      [] specialty = "Neurology" -> {w_brain, w_ms}
      [] specialty = "Emergency Medicine" -> {w_ed, w_trauma, w_cardiac_arrest}

\* Those of WHOLE_WORD_TERMS that are terms of the model.
WHOLE_WORD_TERMS == {w_ed, w_ms, w_dvt}

\* Some of IGNORED_MESH_TERMS.
IGNORED_MESH_TERMS == {w_adult, w_humans}

\* Some of the journal keywords of each kept specialty.
journal_keywords(specialty) ==
    LET w_cardiol == <<"c","a","r","d","i","o","l">>
        w_oncol == <<"o","n","c","o","l">>
        w_neurol == <<"n","e","u","r","o","l">>
        w_emerg_med == <<"e","m","e","r","g"," ","m","e","d">>
    IN CASE specialty = "Cardiology" -> {w_cardiol, w_heart, w_circulation}
         [] specialty = "Oncology" -> {w_cancer, w_oncol, w_tumor}
         [] specialty = "Neurology" -> {w_neurol, w_brain}
         [] specialty = "Emergency Medicine" -> {w_emerg_med, w_trauma}

\* A preference list that leaves out the two most specific specialties.
specific_order_incomplete == <<"Neurology", "Emergency Medicine">>

\* The specialties of specific_order kept in the model, in its order.
specific_order == <<"Oncology", "Cardiology", "Neurology", "Emergency Medicine">>

MIN_SCORE_THRESHOLD == 4
WEIGHT_MESH == 3
WEIGHT_FIELD == 2
WEIGHT_KEYWORD == 2
WEIGHT_TITLE == 2
WEIGHT_JOURNAL == 4
SHORT_TERM_LEN == 3
MAX_STORED_MATCHES == 5

\* `term in text` for strings: term occurs at position i of text.
occurs_at(term, text, i) ==
    i + Len(term) - 1 <= Len(text) /\ SubSeq(text, i, i + Len(term) - 1) = term

is_substring(term, text) == \E i \in 1..(Len(text) + 1) : occurs_at(term, text, i)

\* \w of a regular expression.
is_word_sym(c) == isalnum(c) \/ c = "_"

\* re.search(r'\b' + term + r'\b', text) for a term that starts and ends with
\* a word character.
word_search(term, text) ==
    \E i \in 1..Len(text) :
        /\ occurs_at(term, text, i)
        /\ (i = 1 \/ ~is_word_sym(text[i - 1]))
        /\ (i + Len(term) > Len(text) \/ ~is_word_sym(text[i + Len(term)]))

_is_word_match(term, text) ==
    LET term_lower == str_lower(term)
        text_lower == str_lower(text)
    IN IF Len(term) <= SHORT_TERM_LEN \/ term_lower \in WHOLE_WORD_TERMS
       THEN word_search(term_lower, text_lower)
       ELSE is_substring(term_lower, text_lower)

_should_ignore_mesh(mesh_term) ==
    \E ignored \in IGNORED_MESH_TERMS : is_substring(ignored, str_lower(mesh_term))

\* `if x:` for an Optional[str] or a list.
truthy(x) == ~Falsy(x)

\* The scan of a term list that looks at its first entry only.
matching_entries_first_only(specialty, entries) ==
    {i \in 1..Len(entries) :
        /\ i = 1
        /\ \E t \in MEDICAL_SPECIALTY_TERMS(specialty) : _is_word_match(t, entries[i])}

\* The entries of a term list that match some term of the specialty: each
\* adds the weight once (the inner loop breaks at the first matching term).
matching_entries(specialty, entries) ==
    {i \in 1..Len(entries) :
        \E t \in MEDICAL_SPECIALTY_TERMS(specialty) : _is_word_match(t, entries[i])}

\* The MeSH scan with the weight of the journal scan.
mesh_score_as_journal(record, specialty) ==
    WEIGHT_JOURNAL *
        Cardinality({i \in 1..Len(record.mesh_terms) :
            /\ ~_should_ignore_mesh(record.mesh_terms[i])
            /\ \E t \in MEDICAL_SPECIALTY_TERMS(specialty) :
                  _is_word_match(t, str_lower(record.mesh_terms[i]))})

mesh_score(record, specialty) ==
    WEIGHT_MESH *
        Cardinality({i \in 1..Len(record.mesh_terms) :
            /\ ~_should_ignore_mesh(record.mesh_terms[i])
            /\ \E t \in MEDICAL_SPECIALTY_TERMS(specialty) :
                  _is_word_match(t, str_lower(record.mesh_terms[i]))})

field_score(record, specialty) ==
    WEIGHT_FIELD * Cardinality(matching_entries(specialty, record.fields_of_study))

\* The keyword scan with the weight of the journal scan.
keyword_score_as_journal(record, specialty) ==
    WEIGHT_JOURNAL * Cardinality(matching_entries(specialty, record.keywords))

keyword_score(record, specialty) ==
    WEIGHT_KEYWORD * Cardinality(matching_entries(specialty, record.keywords))

\* The terms of the specialty found in a text.
terms_in(specialty, text) ==
    {t \in MEDICAL_SPECIALTY_TERMS(specialty) : _is_word_match(t, str_lower(text))}

\* The title scan with the score stopped, like the stored evidence, at five
\* stored matches.
title_score_capped(record, specialty) ==
    LET values(entries) == {entries[i] : i \in matching_entries(specialty, entries)}
        stored == Cardinality({e \in values(record.mesh_terms) : ~_should_ignore_mesh(e)})
                  + Cardinality(values(record.fields_of_study))
                  + Cardinality(values(record.keywords))
        room == IF stored >= MAX_STORED_MATCHES THEN 0 ELSE MAX_STORED_MATCHES - stored
        found == Cardinality(terms_in(specialty, record.title))
    IN IF truthy(record.title)
       THEN WEIGHT_TITLE * (IF found <= room THEN found ELSE room)
       ELSE 0

title_score(record, specialty) ==
    IF truthy(record.title) THEN WEIGHT_TITLE * Cardinality(terms_in(specialty, record.title))
    ELSE 0

abstract_score(record, specialty) ==
    IF truthy(record.abstract) THEN Cardinality(terms_in(specialty, record.abstract)) ELSE 0

journal_score(record, specialty) ==
    IF truthy(record.journal)
          /\ \E keyword \in journal_keywords(specialty) :
                is_substring(keyword, str_lower(record.journal))
    THEN WEIGHT_JOURNAL ELSE 0

\* scores[specialty] at the end of the six scans.
score(record, specialty) ==
    mesh_score(record, specialty) + field_score(record, specialty)
    + keyword_score(record, specialty) + title_score(record, specialty)
    + abstract_score(record, specialty) + journal_score(record, specialty)

\* len(matches[specialty]) at the end of the six scans.  The list scans store
\* each matching value once (`if match_str not in matches[specialty]`), the
\* title scan stores a term only while fewer than five matches are stored,
\* the abstract and journal scans store one entry each.
stored_matches(record, specialty) ==
    LET values(entries) == {entries[i] : i \in matching_entries(specialty, entries)}
        lists == Cardinality({e \in values(record.mesh_terms) : ~_should_ignore_mesh(e)})
                 + Cardinality(values(record.fields_of_study))
                 + Cardinality(values(record.keywords))
        room == IF lists >= MAX_STORED_MATCHES THEN 0 ELSE MAX_STORED_MATCHES - lists
        found == IF truthy(record.title)
                 THEN Cardinality(terms_in(specialty, record.title)) ELSE 0
    IN lists + (IF found <= room THEN found ELSE room)
       + (IF abstract_score(record, specialty) > 0 THEN 1 ELSE 0)
       + (IF journal_score(record, specialty) > 0 THEN 1 ELSE 0)

inputs_used(record) ==
    (IF record.mesh_terms # <<>> THEN <<"MeSH terms">> ELSE <<>>)
    \o (IF record.fields_of_study # <<>> THEN <<"fields_of_study">> ELSE <<>>)
    \o (IF record.keywords # <<>> THEN <<"keywords">> ELSE <<>>)
    \o (IF truthy(record.title) THEN <<"title">> ELSE <<>>)
    \o (IF truthy(record.abstract) THEN <<"abstract">> ELSE <<>>)
    \o (IF truthy(record.journal) THEN <<"journal">> ELSE <<>>)

\* The threshold test with `>` for `>=`.
meets_threshold_strict(max_score) == max_score > MIN_SCORE_THRESHOLD

\* `if max_score >= min_score_threshold`
meets_threshold(max_score) == max_score >= MIN_SCORE_THRESHOLD

\* sorted(scores.items(), key=lambda x: x[1], reverse=True)[:3] without the
\* zero scores: <<specialty, score>> pairs.  The sort is stable, so equal
\* scores stay in the order of the table.
top_3(scores) ==
    LET before(a, b) == \/ scores[SPECIALTIES[a]] > scores[SPECIALTIES[b]]
                        \/ scores[SPECIALTIES[a]] = scores[SPECIALTIES[b]] /\ a < b
        rank(b) == Cardinality({a \in 1..Len(SPECIALTIES) : before(a, b)})
        at(r) == CHOOSE b \in 1..Len(SPECIALTIES) : rank(b) = r
        sorted == [r \in 1..Len(SPECIALTIES) |-> <<SPECIALTIES[at(r - 1)], scores[SPECIALTIES[at(r - 1)]]>>]
    IN SelectSeq(SubSeq(sorted, 1, 3), LAMBDA e : e[2] > 0)

\* The last element of order that is in the set.
last_in(order, set) ==
    LET hits == {i \in 1..Len(order) : order[i] \in set}
    IN IF hits = {} THEN "" ELSE order[CHOOSE i \in hits : \A k \in hits : k <= i]

\* The first element of order that is in the set, "" for none.
first_in(order, set) ==
    LET hits == {i \in 1..Len(order) : order[i] \in set}
    IN IF hits = {} THEN "" ELSE order[CHOOSE i \in hits : \A k \in hits : i <= k]

\* The decision of classify_topic: the topic, the kind of rationale ("clear",
\* "tied", "below threshold", "no match") and the inputs used.
classify_topic(record) ==
    LET scores == [s \in {SPECIALTIES[i] : i \in 1..Len(SPECIALTIES)} |-> score(record, s)]
        max_score == CHOOSE m \in {scores[s] : s \in DOMAIN scores} :
                        \A s \in DOMAIN scores : scores[s] <= m
        top_specialties == {s \in DOMAIN scores : scores[s] = max_score}
        preferred == first_in(specific_order, top_specialties)
    IN IF meets_threshold(max_score) THEN
           IF Cardinality(top_specialties) = 1
           THEN [topic |-> first_in(SPECIALTIES, top_specialties), reason |-> "clear",
                 max_score |-> max_score, inputs_used |-> inputs_used(record)]
           ELSE [topic |-> IF preferred # "" THEN preferred
                           ELSE first_in(SPECIALTIES, top_specialties),
                 reason |-> "tied", max_score |-> max_score,
                 inputs_used |-> inputs_used(record)]
       ELSE [topic |-> "Other/Unclear",
             reason |-> IF max_score = 0 THEN "no match" ELSE "below threshold",
             max_score |-> max_score, inputs_used |-> inputs_used(record)]

\* The scores quoted by the rationale of a record below the threshold:
\* f"Below threshold ({max_score}<{min_score_threshold}). Top: {scores_str}".
top_scores(record) ==
    top_3([s \in {SPECIALTIES[i] : i \in 1..Len(SPECIALTIES)} |-> score(record, s)])

\* ----------------------------------------------------------------- detection.py

\* A text is a sequence of words, each one symbol, and of the characters
\* between them (" ", "-", ","): a word boundary lies at both ends of every
\* word.  A pattern is a sequence of elements: one word out of a set, `\s+`,
\* or `[- ]`.
W(words) == [k |-> "w", words |-> words]
WS == [k |-> "s", words |-> {}]
HS == [k |-> "h", words |-> {}]

\* Some of NEGATIVE_PATTERNS: retrospective, cohort\s+study, case[- ]control,
\* meta[- ]analysis.
NEGATIVE_PATTERNS ==
    << <<W({"retrospective"})>>,
       <<W({"cohort"}), WS, W({"study"})>>,
       <<W({"case"}), HS, W({"control"})>>,
       <<W({"meta"}), HS, W({"analysis"})>> >>

\* Some of STRONG_RCT_PATTERNS, in their order: the two of the title override
\* first.
STRONG_RCT_PATTERNS ==
    << <<W({"randomized"}), WS, W({"controlled"}), WS, W({"trial"})>>,
       <<W({"randomised"}), WS, W({"controlled"}), WS, W({"trial"})>>,
       <<W({"randomized"}), WS, W({"clinical"}), WS, W({"trial"})>>,
       <<W({"placebo"}), HS, W({"controlled"}), WS, W({"trial", "study"})>>,
       <<W({"double"}), HS, W({"blind", "blinded"}), WS, W({"randomized", "randomised"})>>,
       <<W({"randomized"}), HS, W({"controlled"})>> >>

\* Some of MODERATE_RCT_PATTERNS.
MODERATE_RCT_PATTERNS ==
    << <<W({"randomized"})>>,
       <<W({"randomised"})>>,
       <<W({"placebo"})>>,
       <<W({"double"}), HS, W({"blind", "blinded"})>>,
       <<W({"controlled"}), WS, W({"trial"})>>,
       <<W({"clinical"}), WS, W({"trial"})>> >>

\* Some of WEAK_RCT_PATTERNS.
WEAK_RCT_PATTERNS ==
    << <<W({"control"}), WS, W({"group", "arm"})>>,
       <<W({"primary"}), WS, W({"endpoint", "outcome"})>>,
       <<W({"enrollment"})>>,
       <<W({"crossover"})>> >>

\* The pattern matches the text from position i on.
RECURSIVE match_at(_, _, _)
match_at(pattern, text, i) ==
    IF pattern = <<>> THEN TRUE
    ELSE IF i > Len(text) THEN FALSE
    ELSE CASE Head(pattern).k = "w" ->
                 text[i] \in Head(pattern).words /\ match_at(Tail(pattern), text, i + 1)
           [] Head(pattern).k = "h" ->
                 text[i] \in {"-", " "} /\ match_at(Tail(pattern), text, i + 1)
           [] Head(pattern).k = "s" ->
                 isspace(text[i]) /\ (\/ match_at(Tail(pattern), text, i + 1)
                                      \/ match_at(pattern, text, i + 1))

\* re.search(pattern, text)
re_search(pattern, text) == \E i \in 1..Len(text) : match_at(pattern, text, i)

\* The patterns of a list that match, in the order of the list.
matching_patterns(patterns, text) ==
    SelectSeq(patterns, LAMBDA pattern : re_search(pattern, text))

\* ' '.join(keywords)
RECURSIVE join_space(_)
join_space(lst) ==
    IF lst = <<>> THEN <<>>
    ELSE IF Len(lst) = 1 THEN lst[1]
    ELSE lst[1] \o <<" ">> \o join_space(Tail(lst))

\* `x or ''`
or_empty(x) == IF Falsy(x) THEN <<>> ELSE x

\* text = f"{title or ''} {abstract or ''}" (+ ' ' + ' '.join(keywords)), lowered.
combined_text(title, abstract, keywords) ==
    str_lower(or_empty(title) \o <<" ">> \o or_empty(abstract)
              \o (IF Falsy(keywords) THEN <<>> ELSE <<" ">> \o join_space(keywords)))

\* The test of the title for the American spelling only.
title_claims_rct_one_spelling(title) ==
    re_search(STRONG_RCT_PATTERNS[1], str_lower(title))

\* The test of the title at the negative gate.
title_claims_rct(title) ==
    \/ re_search(STRONG_RCT_PATTERNS[1], str_lower(title))
    \/ re_search(STRONG_RCT_PATTERNS[2], str_lower(title))

\* The first test with `abstract is None` for `not abstract`.
no_text_unless_empty_string(title, abstract) == Falsy(title) /\ abstract = None

\* `if not title and not abstract`
no_text(title, abstract) == Falsy(title) /\ Falsy(abstract)

\* detect_rct_from_text with the strong patterns tried before the negative gate.
detect_rct_strong_first(title, abstract, keywords) ==
    LET text == combined_text(title, abstract, keywords)
        negative_matches == matching_patterns(NEGATIVE_PATTERNS, text)
        strong == matching_patterns(STRONG_RCT_PATTERNS, text)
        moderate_matches == matching_patterns(MODERATE_RCT_PATTERNS, text)
        weak_matches == matching_patterns(WEAK_RCT_PATTERNS, text)
    IN IF no_text(title, abstract)
           THEN [is_rct |-> FALSE, method |-> "No title or abstract available"]
       ELSE IF strong # <<>>
           THEN [is_rct |-> TRUE,
                 method |-> IF re_search(strong[1], str_lower(or_empty(title)))
                            THEN "Strong RCT signal in title"
                            ELSE "Strong RCT signal in abstract"]
       ELSE IF Len(negative_matches) >= 2 /\ ~title_claims_rct(title)
           THEN [is_rct |-> FALSE, method |-> "Negative signals detected"]
       ELSE IF Len(moderate_matches) >= 2
           THEN [is_rct |-> TRUE, method |-> "Multiple RCT signals detected"]
       ELSE IF Len(moderate_matches) >= 1 /\ Len(weak_matches) >= 2
           THEN [is_rct |-> TRUE, method |-> "RCT signal with supporting evidence"]
       ELSE [is_rct |-> FALSE, method |-> "No sufficient RCT signals detected"]

\* detect_rct_from_text with two weak patterns accepted without a moderate one.
detect_rct_weak_alone(title, abstract, keywords) ==
    LET text == combined_text(title, abstract, keywords)
        negative_matches == matching_patterns(NEGATIVE_PATTERNS, text)
        strong == matching_patterns(STRONG_RCT_PATTERNS, text)
        moderate_matches == matching_patterns(MODERATE_RCT_PATTERNS, text)
        weak_matches == matching_patterns(WEAK_RCT_PATTERNS, text)
    IN IF no_text(title, abstract)
           THEN [is_rct |-> FALSE, method |-> "No title or abstract available"]
       ELSE IF Len(negative_matches) >= 2 /\ ~title_claims_rct(title)
           THEN [is_rct |-> FALSE, method |-> "Negative signals detected"]
       ELSE IF strong # <<>>
           THEN [is_rct |-> TRUE,
                 method |-> IF re_search(strong[1], str_lower(or_empty(title)))
                            THEN "Strong RCT signal in title"
                            ELSE "Strong RCT signal in abstract"]
       ELSE IF Len(moderate_matches) >= 2
           THEN [is_rct |-> TRUE, method |-> "Multiple RCT signals detected"]
       ELSE IF Len(weak_matches) >= 2
           THEN [is_rct |-> TRUE, method |-> "RCT signal with supporting evidence"]
       ELSE [is_rct |-> FALSE, method |-> "No sufficient RCT signals detected"]

\* detect_rct_from_text: (is_rct, detection_method), the method without the
\* matched text it quotes.
detect_rct_from_text(title, abstract, keywords) ==
    LET text == combined_text(title, abstract, keywords)
        negative_matches == matching_patterns(NEGATIVE_PATTERNS, text)
        strong == matching_patterns(STRONG_RCT_PATTERNS, text)
        moderate_matches == matching_patterns(MODERATE_RCT_PATTERNS, text)
        weak_matches == matching_patterns(WEAK_RCT_PATTERNS, text)
    IN IF no_text(title, abstract)
           THEN [is_rct |-> FALSE, method |-> "No title or abstract available"]
       ELSE IF Len(negative_matches) >= 2 /\ ~title_claims_rct(title)
           THEN [is_rct |-> FALSE, method |-> "Negative signals detected"]
       ELSE IF strong # <<>>
           THEN [is_rct |-> TRUE,
                 method |-> IF re_search(strong[1], str_lower(or_empty(title)))
                            THEN "Strong RCT signal in title"
                            ELSE "Strong RCT signal in abstract"]
       ELSE IF Len(moderate_matches) >= 2
           THEN [is_rct |-> TRUE, method |-> "Multiple RCT signals detected"]
       ELSE IF Len(moderate_matches) >= 1 /\ Len(weak_matches) >= 2
           THEN [is_rct |-> TRUE, method |-> "RCT signal with supporting evidence"]
       ELSE [is_rct |-> FALSE, method |-> "No sufficient RCT signals detected"]

\* -------------------------------------------------------------- dictionaries

\* A Python dict as the sequence of its <<key, value>> items in insertion
\* order; the values held for records are positions in `unmatched`, which
\* stand for the references to the record objects.
dict_has(d, k) == \E i \in 1..Len(d) : d[i][1] = k

dict_get(d, k) == d[CHOOSE i \in 1..Len(d) : d[i][1] = k][2]

\* d[k] = v: an existing key keeps its position.
dict_set(d, k, v) ==
    IF dict_has(d, k) THEN [i \in 1..Len(d) |-> IF d[i][1] = k THEN <<k, v>> ELSE d[i]]
    ELSE Append(d, <<k, v>>)

\* ------------------------------------------------------------ candidate pool

T12 == <<"a","b","c","d","e","f","g","h","i","j","k","l">>
T12v == <<"A","B","C",":"," ","d","e","f","g","h","i","j","k","l","?">>
T11 == take(T12, 11)
T10 == take(T12, 10)
TShort == <<"a","b">>
TShortV == <<"A","?","B">>

Circulation == <<"C","i","r","c","u","l","a","t","i","o","n">>
Lancet == <<"L","a","n","c","e","t">>

SmithJohn == <<"Smith", ",", " ", "John">>
JohnSMITH == <<" ", "John", " ", "SMITH", " ">>
JonesJohn == <<"Jones", ",", "John">>
Blank == <<" ">>

DoiX == <<"10.1/", "x">>
DoiXUpper == <<"10.1/", "X">>
DoiXUrl == <<" ", "HTTPS://DOI.ORG/", "10.1/", "X", " ">>
DoiY == <<"DOI:", "10.1/", "y">>
Pmid111 == <<"111">>
Pmid111Sp == <<"111", " ">>
Pmc1 == <<"PMC", "1">>

RecA == [RCTRecord EXCEPT !.source_primary = "PubMed", !.sources_found_in = <<"PubMed">>,
            !.pmid = Pmid111, !.doi = DoiX, !.title = T12v, !.authors = <<SmithJohn>>,
            !.journal = Circulation, !.publication_year = 2024, !.rct_flag = TRUE]
RecB == [RCTRecord EXCEPT !.source_primary = "Crossref", !.sources_found_in = <<"Crossref">>,
            !.doi = DoiXUpper, !.crossref_doi = DoiXUpper, !.title = T12,
            !.authors = <<SmithJohn>>, !.publication_year = 2024,
            !.publisher = <<"p">>]
RecC == [RCTRecord EXCEPT !.source_primary = "OpenAlex", !.sources_found_in = <<"OpenAlex">>,
            !.openalex_id = <<"W", "1">>, !.title = T11, !.authors = <<JohnSMITH>>,
            !.publication_year = 2024, !.journal = Lancet]
RecDoiUrl == [RCTRecord EXCEPT !.source_primary = "EuropePMC",
            !.sources_found_in = <<"EuropePMC">>, !.doi = DoiXUrl, !.pmcid = Pmc1,
            !.title = T12, !.journal = Lancet]
RecPmid == [RCTRecord EXCEPT !.source_primary = "PubMed", !.sources_found_in = <<"PubMed">>,
            !.pmid = Pmid111Sp, !.title = T12, !.authors = <<SmithJohn>>,
            !.publication_year = 2024]
RecPmcid == [RCTRecord EXCEPT !.source_primary = "EuropePMC",
            !.sources_found_in = <<"EuropePMC">>, !.pmcid = Pmc1, !.title = T12,
            !.authors = <<Blank>>]
RecPmidPmcid == [RCTRecord EXCEPT !.source_primary = "EuropePMC",
            !.sources_found_in = <<"EuropePMC">>, !.pmid = Pmid111, !.pmcid = Pmc1]
RecDoiY == [RCTRecord EXCEPT !.source_primary = "SemanticScholar",
            !.sources_found_in = <<"SemanticScholar">>, !.doi = DoiY, !.title = T12,
            !.authors = <<SmithJohn>>, !.publication_year = 2024]
RecT10 == [RCTRecord EXCEPT !.source_primary = "OpenAlex", !.sources_found_in = <<"OpenAlex">>,
            !.title = T10]
RecY23 == [RCTRecord EXCEPT !.source_primary = "Crossref", !.sources_found_in = <<"Crossref">>,
            !.title = T12, !.authors = <<SmithJohn>>, !.publication_year = 2023]
RecJones == [RCTRecord EXCEPT !.source_primary = "Crossref", !.sources_found_in = <<"Crossref">>,
            !.title = T12, !.authors = <<JonesJohn>>, !.publication_year = 2024]
RecNoYear == [RCTRecord EXCEPT !.source_primary = "SemanticScholar",
            !.sources_found_in = <<"SemanticScholar">>, !.title = T12v]
RecShort == [RCTRecord EXCEPT !.source_primary = "OpenAlex", !.sources_found_in = <<"OpenAlex">>,
            !.title = TShort, !.authors = <<SmithJohn>>, !.publication_year = 2024]
RecShortV == [RCTRecord EXCEPT !.source_primary = "Crossref", !.sources_found_in = <<"Crossref">>,
            !.title = TShortV, !.authors = <<JonesJohn>>, !.publication_year = 2024]
RecEmpty == [RCTRecord EXCEPT !.source_primary = "Crossref", !.sources_found_in = <<"Crossref">>]
RecBlankAuthor == [RCTRecord EXCEPT !.source_primary = "OpenAlex",
            !.sources_found_in = <<"OpenAlex">>, !.title = T12, !.authors = <<Blank>>]

\* The candidate records a connector may hand over.
RecordPool ==
    {RecA, RecB, RecC, RecDoiUrl, RecPmid, RecPmcid, RecPmidPmcid, RecDoiY, RecT10,
     RecY23, RecJones, RecNoYear, RecShort, RecShortV, RecEmpty,
     RecBlankAuthor}

\* ------------------------------------------------ deduplicate_records: state

VARIABLES
    records,        \* the input list, as far as the loop has consumed it
    doi_index,      \* normalized DOI -> record
    pmid_index,     \* stripped PMID -> record
    pmcid_index,    \* stripped PMCID -> record
    unmatched,      \* the admitted record objects, in admission order
    deduplicated,   \* dedup key -> record
    merge_count,
    log,            \* per input record: how it was resolved and into which record
    pc,             \* "loop", "done" (returned) or "raised" (IndexError)
    result,         \* the returned list
    canonical,      \* merge_with: self, the canonical record
    group,          \* merge_with: the first candidate and those merged into it
    previous,       \* merge_with: self as it was before the last call
    detect_args,    \* detect_rct_from_text: title, abstract, keywords of the call
    detect_result,  \* detect_rct_from_text: the returned (is_rct, detection_method)
    classify_record,    \* classify_topic: the record of the call
    classify_result,    \* classify_topic: the returned topic, reason, inputs used
    run                 \* RCTFinder.run: its locals, self.stats and the returned list

dedup_vars == <<records, doi_index, pmid_index, pmcid_index, unmatched, deduplicated,
                merge_count, log, pc, result>>

merge_vars == <<canonical, group, previous>>

detect_vars == <<detect_args, detect_result>>

classify_vars == <<classify_record, classify_result>>

vars == <<dedup_vars, merge_vars, detect_vars, classify_vars, run>>

\* No RCTFinder has been constructed.
RunIdle == run = <<>>

\* No call of classify_topic has been made.
ClassifyIdle ==
    /\ classify_record = <<>>
    /\ classify_result = <<>>

\* No call of detect_rct_from_text has been made.
DetectIdle ==
    /\ detect_args = <<>>
    /\ detect_result = <<>>

\* No call of merge_with outside deduplicate_records is under way.
MergeIdle ==
    /\ canonical = RCTRecord
    /\ group = <<>>
    /\ previous = RCTRecord

Init ==
    /\ records = <<>>
    /\ doi_index = <<>>
    /\ pmid_index = <<>>
    /\ pmcid_index = <<>>
    /\ unmatched = <<>>
    /\ deduplicated = <<>>
    /\ merge_count = 0
    /\ log = <<>>
    /\ pc = "loop"
    /\ result = <<>>
    /\ MergeIdle
    /\ DetectIdle
    /\ ClassifyIdle
    /\ RunIdle

\* The exact lookups with the PMID index consulted before the DOI index.
exact_match_pmid_first(record, di, pi, ci) ==
    IF ~Falsy(record.pmid) /\ dict_has(pi, str_strip(record.pmid))
        THEN [via |-> "pmid", into |-> dict_get(pi, str_strip(record.pmid))]
    ELSE IF ~Falsy(record.doi) /\ dict_has(di, normalize_doi(record.doi))
        THEN [via |-> "doi", into |-> dict_get(di, normalize_doi(record.doi))]
    ELSE IF ~Falsy(record.pmcid) /\ dict_has(ci, str_strip(record.pmcid))
        THEN [via |-> "pmcid", into |-> dict_get(ci, str_strip(record.pmcid))]
    ELSE [via |-> "none", into |-> 0]

\* The exact lookups of one iteration, in the order of the code: which index
\* matched ("doi", "pmid", "pmcid" or "none") and the record it holds (0: none).
exact_match(record, di, pi, ci) ==
    IF ~Falsy(record.doi) /\ dict_has(di, normalize_doi(record.doi))
        THEN [via |-> "doi", into |-> dict_get(di, normalize_doi(record.doi))]
    ELSE IF ~Falsy(record.pmid) /\ dict_has(pi, str_strip(record.pmid))
        THEN [via |-> "pmid", into |-> dict_get(pi, str_strip(record.pmid))]
    ELSE IF ~Falsy(record.pmcid) /\ dict_has(ci, str_strip(record.pmcid))
        THEN [via |-> "pmcid", into |-> dict_get(ci, str_strip(record.pmcid))]
    ELSE [via |-> "none", into |-> 0]

\* The index updates of the else branch for a record stored at position n.
index_doi(di, record, n) ==
    IF ~Falsy(record.doi) THEN dict_set(di, normalize_doi(record.doi), n) ELSE di

index_pmid(pi, record, n) ==
    IF ~Falsy(record.pmid) THEN dict_set(pi, str_strip(record.pmid), n) ELSE pi

index_pmcid(ci, record, n) ==
    IF ~Falsy(record.pmcid) THEN dict_set(ci, str_strip(record.pmcid), n) ELSE ci

\* The fuzzy scan without the test of the key.
fuzzy_scan_any_key(record, dedup_key, candidates) == _find_fuzzy_match(record, candidates)

\* The fuzzy scan over the candidates without DOI, PMID and PMCID only.
fuzzy_scan_identifierless(record, dedup_key, candidates) ==
    LET hits == {j \in 1..Len(candidates) :
                    /\ Falsy(candidates[j].doi) /\ Falsy(candidates[j].pmid)
                    /\ Falsy(candidates[j].pmcid)
                    /\ fuzzy_accepts(record, candidates[j])}
    IN IF dedup_key.kind # "fuzzy" \/ Falsy(record.title) \/ hits = {} THEN 0
       ELSE CHOOSE j \in hits : \A k \in hits : j <= k

\* The fuzzy scan of the else branch: attempted only for a fuzzy key.
fuzzy_scan(record, dedup_key, candidates) ==
    IF dedup_key.kind = "fuzzy" THEN _find_fuzzy_match(record, candidates) ELSE 0

\* The loop state of deduplicate_records as one value.
LoopState(di, pi, ci, um, dd, mc, lg, p) ==
    [doi_index |-> di, pmid_index |-> pi, pmcid_index |-> ci, unmatched |-> um,
     deduplicated |-> dd, merge_count |-> mc, log |-> lg, pc |-> p]

\* The state before the first iteration.
InitialLoopState == LoopState(<<>>, <<>>, <<>>, <<>>, <<>>, 0, <<>>, "loop")

\* One iteration of `for record in records`, from loop state st.
loop_body(st, record) ==
    LET m == exact_match(record, st.doi_index, st.pmid_index, st.pmcid_index)
        dedup_key == get_dedup_key(record)
        n == Len(st.unmatched) + 1
        fuzzy_match == fuzzy_scan(record, dedup_key, st.unmatched)
    IN IF m.via # "none" THEN
           [st EXCEPT !.unmatched[m.into] = merge_with(@, record),
                      !.merge_count = @ + 1,
                      !.log = Append(@, m)]
       ELSE IF dedup_key.kind = "IndexError" THEN
           [st EXCEPT !.pc = "raised",
                      !.log = Append(@, [via |-> "raised", into |-> 0])]
       ELSE IF fuzzy_match # 0 THEN
           [st EXCEPT !.doi_index = index_doi(@, record, n),
                      !.pmid_index = index_pmid(@, record, n),
                      !.pmcid_index = index_pmcid(@, record, n),
                      !.unmatched[fuzzy_match] = merge_with(@, record),
                      !.merge_count = @ + 1,
                      !.log = Append(@, [via |-> "fuzzy", into |-> fuzzy_match])]
       ELSE
           [st EXCEPT !.doi_index = index_doi(@, record, n),
                      !.pmid_index = index_pmid(@, record, n),
                      !.pmcid_index = index_pmcid(@, record, n),
                      !.unmatched = Append(@, record),
                      !.deduplicated = dict_set(@, dedup_key, n),
                      !.log = Append(@, [via |-> "new", into |-> n])]

\* list(deduplicated.values())
dict_values(dd, um) == [i \in 1..Len(dd) |-> um[dd[i][2]]]

\* The loop over a whole input list; it stops at the first exception.
RECURSIVE run_loop(_, _)
run_loop(st, recs) ==
    IF recs = <<>> \/ st.pc = "raised" THEN st
    ELSE run_loop(loop_body(st, Head(recs)), Tail(recs))

\* deduplicate_records(recs) for an input that does not raise: the final loop
\* state and the returned list.
deduplicate_records(recs) ==
    LET st == run_loop(InitialLoopState, recs)
    IN [st |-> st,
        returned |-> IF recs = <<>> THEN <<>> ELSE dict_values(st.deduplicated, st.unmatched)]

CurrentLoopState ==
    LoopState(doi_index, pmid_index, pmcid_index, unmatched, deduplicated,
              merge_count, log, pc)

\* The loop takes the next record of the input.
ProcessRecord(record) ==
    /\ pc = "loop"
    /\ Len(records) < MaxRecords
    /\ records' = Append(records, record)
    /\ LET st == loop_body(CurrentLoopState, record)
       IN /\ doi_index' = st.doi_index
          /\ pmid_index' = st.pmid_index
          /\ pmcid_index' = st.pmcid_index
          /\ unmatched' = st.unmatched
          /\ deduplicated' = st.deduplicated
          /\ merge_count' = st.merge_count
          /\ log' = st.log
          /\ pc' = st.pc
    /\ UNCHANGED result
    /\ UNCHANGED <<merge_vars, detect_vars, classify_vars, run>>

\* The end of the input: `return list(deduplicated.values())` (and the early
\* `return []` for an empty list).
Return ==
    /\ pc = "loop"
    /\ pc' = "done"
    /\ result' = IF records = <<>> THEN <<>> ELSE dict_values(deduplicated, unmatched)
    /\ UNCHANGED <<records, doi_index, pmid_index, pmcid_index, unmatched,
                   deduplicated, merge_count, log>>
    /\ UNCHANGED <<merge_vars, detect_vars, classify_vars, run>>

Next == (\E record \in RecordPool : ProcessRecord(record)) \/ Return

Spec == Init /\ [][Next]_vars

\* ------------------------------------------------------------------ claims

Inputs == 1..Len(records)

carries_doi(r, key) == ~Falsy(r.doi) /\ normalize_doi(r.doi) = key
carries_pmid(r, key) == ~Falsy(r.pmid) /\ str_strip(r.pmid) = key
carries_pmcid(r, key) == ~Falsy(r.pmcid) /\ str_strip(r.pmcid) = key

has_identifier(r) == ~Falsy(r.doi) \/ ~Falsy(r.pmid) \/ ~Falsy(r.pmcid)

share_identifier(a, b) ==
    \/ ~Falsy(a.doi) /\ carries_doi(b, normalize_doi(a.doi))
    \/ ~Falsy(a.pmid) /\ carries_pmid(b, str_strip(a.pmid))
    \/ ~Falsy(a.pmcid) /\ carries_pmcid(b, str_strip(a.pmcid))

\* Input i was merged into an existing canonical record.
was_merged(i) == log[i].via \in {"doi", "pmid", "pmcid", "fuzzy"}

\* C1: in the returned list no two distinct records carry the same normalized
\* DOI, the same PMID or the same PMCID.
C1_OneRecordPerIdentifier ==
    pc = "done" =>
        \A i, j \in 1..Len(result) : i # j => ~share_identifier(result[i], result[j])

\* Input i is the first record of its group to supply the identifier field
\* f ("doi", "pmid", "pmcid"), and it was merged, not admitted: the canonical
\* record gained the identifier through that merge.
contributes(i, f) ==
    /\ was_merged(i)
    /\ ~Falsy(records[i][f])
    /\ \A h \in 1..(i - 1) : log[h].into = log[i].into => Falsy(records[h][f])

carries_same(f, a, b) ==
    CASE f = "doi" -> carries_doi(b, normalize_doi(a.doi))
      [] f = "pmid" -> carries_pmid(b, str_strip(a.pmid))
      [] f = "pmcid" -> carries_pmcid(b, str_strip(a.pmcid))

\* C2: an identifier a canonical record gained through a merge is an exact-match
\* key: every later candidate carrying it is merged into that record.
C2_GainedIdentifiersAreKeys ==
    \A i, k \in Inputs : \A f \in {"doi", "pmid", "pmcid"} :
        (i < k /\ contributes(i, f) /\ carries_same(f, records[i], records[k]))
            => (was_merged(k) /\ log[k].into = log[i].into)

\* C3: every admitted record is returned, so returned + merges = inputs.
C3_AdmittedNeverLost ==
    pc = "done" =>
        /\ Len(result) + merge_count = Len(records)
        /\ \A j \in 1..Len(unmatched) : \E i \in 1..Len(result) : result[i] = unmatched[j]

\* The groups of input positions a run over recs[p[1]], recs[p[2]], ... forms,
\* named by the positions in recs.
groups_of(recs, p) ==
    LET st == run_loop(InitialLoopState, [i \in 1..Len(recs) |-> recs[p[i]]])
    IN {{p[i] : i \in {h \in 1..Len(recs) : st.log[h].into = j}} : j \in 1..Len(st.unmatched)}

returned_count(recs, p) ==
    Len(deduplicate_records([i \in 1..Len(recs) |-> recs[p[i]]]).returned)

\* C4: every permutation of the input is grouped into the same canonical
\* records, and the same number of records is returned.
C4_OrderInsignificant ==
    pc = "done" =>
        \A p \in Permutations(Inputs) :
            /\ returned_count(records, p) = Len(result)
            /\ groups_of(records, p) = groups_of(records, [i \in Inputs |-> i])

\* The record first admitted, among the inputs before k, with the identifier
\* that input k carries in field f: its position in unmatched, 0 for none.
\* This is what the index of f holds for input k's key when k is processed.
admitted_with(k, f) ==
    LET H == {h \in 1..(k - 1) :
                log[h].via = "new" /\ ~Falsy(records[k][f])
                /\ carries_same(f, records[k], records[h])}
    IN IF H = {} THEN 0 ELSE log[CHOOSE h \in H : \A g \in H : h <= g].into

\* The inputs merged into or admitted as canonical record j, in input order.
RECURSIVE merged_from(_, _, _)
merged_from(j, k, acc) ==
    IF k > Len(records) THEN acc
    ELSE IF log[k].into # j THEN merged_from(j, k + 1, acc)
    ELSE merged_from(j, k + 1,
                     IF log[k].via = "new" THEN records[k] ELSE merge_with(acc, records[k]))

\* C5: exact matching follows the strict priority DOI, PMID, PMCID: a candidate
\* whose DOI is indexed to X is merged into X and only X, whatever its PMID or
\* PMCID is indexed to; PMID decides only when the DOI lookup missed, PMCID
\* only when both missed.
C5_StrictPriority ==
    /\ \A k \in Inputs :
        LET x == admitted_with(k, "doi")
            y == admitted_with(k, "pmid")
            z == admitted_with(k, "pmcid")
        IN /\ x # 0 => log[k] = [via |-> "doi", into |-> x]
           /\ (x = 0 /\ y # 0) => log[k] = [via |-> "pmid", into |-> y]
           /\ (x = 0 /\ y = 0 /\ z # 0) => log[k] = [via |-> "pmcid", into |-> z]
           /\ (x = 0 /\ y = 0 /\ z = 0) => log[k].via \notin {"doi", "pmid", "pmcid"}
    /\ \A j \in 1..Len(unmatched) : unmatched[j] = merged_from(j, 1, RCTRecord)

\* A candidate whose DOI was indexed to one record and whose PMID or PMCID to
\* another has been merged through the DOI.
C5_Witness ==
    \E k \in Inputs :
        /\ log[k].via = "doi"
        /\ \/ admitted_with(k, "pmid") \notin {0, log[k].into}
           \/ admitted_with(k, "pmcid") \notin {0, log[k].into}

\* A DOI string is well formed when its whitespace is at the ends only and a
\* URL or scheme prefix, if any, comes first.
is_doi_prefix(c) == \E i \in 1..Len(DOI_PREFIXES) : DOI_PREFIXES[i] = <<lower_sym(c)>>

well_formed_doi(d) ==
    LET body == {i \in 1..Len(d) : ~isspace(d[i])}
    IN /\ \A i, j \in body : \A m \in i..j : m \in body
       /\ \A i \in body : is_doi_prefix(d[i]) => \A j \in body : i <= j

\* The DOI without whitespace and prefix, letter case ignored.
doi_core(d) == str_lower(SelectSeq(d, LAMBDA c : ~isspace(c) /\ ~is_doi_prefix(c)))

\* Two DOI strings that differ only in case, surrounding whitespace and prefix.
same_doi(d1, d2) ==
    /\ ~Falsy(d1) /\ ~Falsy(d2)
    /\ well_formed_doi(d1) /\ well_formed_doi(d2)
    /\ doi_core(d1) = doi_core(d2)

\* C6: two candidates whose DOIs differ only in case, surrounding whitespace
\* and URL/scheme prefix end in one canonical record, whichever comes first.
C6_DoiFormsDeduplicate ==
    \A i, k \in Inputs :
        (i < k /\ same_doi(records[i].doi, records[k].doi))
            => log[k].into = log[i].into

\* What does hold of such a pair: as the whole input it returns one record,
\* and inside a longer input the second is merged by DOI into the record of
\* the first whenever the first was admitted or itself resolved by DOI, that
\* is whenever the DOI of the first is a key of doi_index.
DoiFormsDeduplicateWhenIndexed ==
    /\ (Len(records) = 2 /\ same_doi(records[1].doi, records[2].doi)) =>
          /\ log[2] = [via |-> "doi", into |-> 1]
          /\ pc = "done" => Len(result) = 1
    /\ \A i, k \in Inputs :
          (i < k /\ same_doi(records[i].doi, records[k].doi)
                 /\ log[i].via \in {"new", "doi"})
             => log[k] = [via |-> "doi", into |-> log[i].into]

\* C7: the end-to-end scenario (a) PubMed, PMID 111, DOI 10.1/x, Circulation;
\* (b) Crossref, DOI 10.1/X, no journal; (c) OpenAlex, no identifier, title
\* similarity >= 0.90 to (a), same year, same first-author last name: one
\* record is returned, found in PubMed, Crossref, OpenAlex, with the journal
\* of (a), classified Cardiology.
C7_EndToEnd ==
    (pc = "done" /\ records = <<RecA, RecB, RecC>>) =>
        /\ Len(result) = 1
        /\ result[1].sources_found_in = <<"PubMed", "Crossref", "OpenAlex">>
        /\ result[1].journal = RecA.journal
        /\ classify_topic(result[1]).topic = "Cardiology"

C7_Witness ==
    /\ pc = "done" /\ records = <<RecA, RecB, RecC>>
    /\ log = <<[via |-> "new", into |-> 1], [via |-> "doi", into |-> 1],
               [via |-> "fuzzy", into |-> 1]>>
    /\ 10 * title_similarity(RecC.title, RecA.title)[1]
          >= 9 * title_similarity(RecC.title, RecA.title)[2]
    /\ RecB.journal = None /\ RecC.journal # RecA.journal

\* Input k is still held by the dedup table.
in_table(k) == \E e \in 1..Len(deduplicated) : deduplicated[e][2] = log[k].into

\* C8: fuzzy matching is attempted only for a candidate without DOI, PMID and
\* PMCID: a candidate carrying one whose exact lookups all miss is admitted as
\* a new canonical record, whatever titles were admitted before, and stays.
C8_FuzzyOnlyWithoutIdentifier ==
    \A k \in Inputs :
        has_identifier(records[k]) =>
            /\ log[k].via # "fuzzy"
            /\ (admitted_with(k, "doi") = 0 /\ admitted_with(k, "pmid") = 0
                /\ admitted_with(k, "pmcid") = 0)
                  => (log[k].via = "new" /\ in_table(k)
                      /\ (pc = "done" => \E i \in 1..Len(result) :
                                            result[i] = unmatched[log[k].into]))

\* A candidate with an identifier was admitted although a record admitted
\* before it has the same title, year and first author.
C8_Witness ==
    \E h, k \in Inputs :
        /\ h < k /\ log[h].via = "new" /\ log[k].via = "new"
        /\ has_identifier(records[k])
        /\ records[k].title = records[h].title /\ records[k].title # <<>>
        /\ records[k].publication_year = records[h].publication_year
        /\ records[k].authors = records[h].authors /\ records[k].authors # <<>>

\* The fuzzy scan ran for input k: no identifier, and no exception.
fuzzy_attempted(k) == ~has_identifier(records[k]) /\ log[k].via \in {"fuzzy", "new"}

\* The input admitted as canonical record j: it fixes j's title, authors, year.
creator(j) == records[CHOOSE h \in Inputs : log[h] = [via |-> "new", into |-> j]]

\* The canonical records the scan for input k looked at, in order: up to the
\* one it returned, or all those admitted before k.
scanned(k) ==
    IF log[k].via = "fuzzy" THEN 1..log[k].into
    ELSE 1..Cardinality({h \in 1..(k - 1) : log[h].via = "new"})

accepted(k, j) == log[k].via = "fuzzy" /\ log[k].into = j

alnum_lower(t) == str_lower(SelectSeq(t, isalnum))

trigrams(n) == {<<n[i], n[i + 1], n[i + 2]>> : i \in 1..(Len(n) - 2)}

\* Trigram Jaccard similarity >= 0.90 of the normalized titles; equality for
\* titles of fewer than 3 normalized characters.
similar(t1, t2) ==
    LET a == alnum_lower(t1)
        b == alnum_lower(t2)
    IN /\ a # <<>> /\ b # <<>>
       /\ IF Len(a) < 3 \/ Len(b) < 3 THEN a = b
          ELSE 10 * Cardinality(trigrams(a) \cap trigrams(b))
                  >= 9 * Cardinality(trigrams(a) \cup trigrams(b))

year_blocks(r, c) ==
    r.publication_year # 0 /\ c.publication_year # 0
    /\ r.publication_year # c.publication_year

\* The last name of a display name: the text before the comma when there is
\* one, the final whitespace-separated token otherwise.
last_name_of(name) ==
    LET commas == {i \in 1..Len(name) : name[i] = ","}
        ends == {i \in 1..Len(name) : ~isspace(name[i])}
        e == CHOOSE i \in ends : \A m \in ends : m <= i
        gaps == {i \in 1..e : isspace(name[i])}
        g == IF gaps = {} THEN 0 ELSE CHOOSE i \in gaps : \A m \in gaps : m <= i
    IN IF ends = {} THEN <<>>
       ELSE IF commas # {}
            THEN str_strip(SubSeq(name, 1, (CHOOSE i \in commas : \A m \in commas : i <= m) - 1))
       ELSE SubSeq(name, g + 1, e)

first_author_last_name(r) == IF r.authors = <<>> THEN <<>> ELSE last_name_of(r.authors[1])

author_blocks(r, c) ==
    /\ first_author_last_name(r) # <<>> /\ first_author_last_name(c) # <<>>
    /\ str_lower(first_author_last_name(r)) # str_lower(first_author_last_name(c))

jaccard_is(t1, t2, num, den) ==
    den * Cardinality(trigrams(alnum_lower(t1)) \cap trigrams(alnum_lower(t2)))
        = num * Cardinality(trigrams(alnum_lower(t1)) \cup trigrams(alnum_lower(t2)))

C10_YearAndAuthorBlock ==
    \A k \in Inputs : fuzzy_attempted(k) =>
        \A j \in scanned(k) :
            similar(records[k].title, creator(j).title)
                => (accepted(k, j) <=>
                        (~year_blocks(records[k], creator(j))
                         /\ ~author_blocks(records[k], creator(j))))

\* "John SMITH" was merged into a record of "Smith, John", and a candidate
\* whose year is missing into a record that has one; a third candidate was
\* kept apart by its year or by its author alone.
C10_Witness ==
    /\ \E k \in Inputs : \E j \in scanned(k) :
          /\ fuzzy_attempted(k) /\ accepted(k, j)
          /\ records[k].authors # <<>> /\ creator(j).authors # <<>>
          /\ has_comma(records[k].authors[1]) # has_comma(creator(j).authors[1])
          /\ first_author_last_name(records[k]) # first_author_last_name(creator(j))
    /\ \E k \in Inputs : \E j \in scanned(k) :
          /\ fuzzy_attempted(k) /\ log[k].via = "new"
          /\ similar(records[k].title, creator(j).title)
          /\ year_blocks(records[k], creator(j)) # author_blocks(records[k], creator(j))

\* ------------------------------------------------- merge_with, call by call

\* Candidates as the connectors build them: one source name each, some
\* identifiers and metadata, term lists without repetition.
MergePubMed ==
    [RCTRecord EXCEPT !.source_primary = "PubMed", !.sources_found_in = <<"PubMed">>,
        !.pmid = <<"p1">>, !.title = <<"t1">>, !.authors = <<<<"a1">>>>,
        !.journal = <<"j1">>, !.publication_date = <<"d1">>,
        !.publication_year = 2024, !.mesh_terms = <<<<"m1">>, <<"m2">>>>,
        !.rct_flag = TRUE]

MergeCrossref ==
    [RCTRecord EXCEPT !.source_primary = "Crossref", !.sources_found_in = <<"Crossref">>,
        !.doi = <<"x1">>, !.crossref_doi = <<"x1">>, !.title = <<"t2">>,
        !.authors = <<<<"a2">>>>, !.publisher = <<"u1">>, !.issn = <<"i1">>,
        !.publication_year = 2023, !.keywords = <<<<"k1">>>>]

MergeOpenAlex ==
    [RCTRecord EXCEPT !.source_primary = "OpenAlex", !.sources_found_in = <<"OpenAlex">>,
        !.openalex_id = <<"o1">>, !.journal = <<"j2">>, !.abstract = <<"b1">>,
        !.mesh_terms = <<<<"m2">>, <<"m3">>>>, !.fields_of_study = <<<<"f1">>>>]

MergeEuropePMC ==
    [RCTRecord EXCEPT !.source_primary = "EuropePMC", !.sources_found_in = <<"EuropePMC">>,
        !.pmid = <<"p2">>, !.pmcid = <<"c1">>, !.doi = <<"x2">>, !.title = <<"t1">>,
        !.journal = <<"j2">>, !.url = <<"l1">>, !.language = <<"g1">>,
        !.abstract = <<>>, !.publication_date = <<"d2">>,
        !.keywords = <<<<"k2">>, <<"k1">>>>, !.is_preprint = TRUE]

MergeScopus ==
    [RCTRecord EXCEPT !.source_primary = "Scopus", !.sources_found_in = <<"Scopus">>,
        !.scopus_id = <<"s1">>, !.wos_id = <<"w1">>, !.dimensions_id = <<"n1">>,
        !.s2PaperId = <<"e1">>, !.abstract = <<"b2">>, !.issn = <<"i2">>,
        !.journal = <<"j1">>,
        !.publisher = <<"u2">>, !.url = <<"l2">>, !.language = <<"g2">>,
        !.mesh_terms = <<<<"m1">>>>, !.fields_of_study = <<<<"f2">>, <<"f1">>>>]

\* A second PubMed candidate: the same source name again.
MergePubMedAgain ==
    [RCTRecord EXCEPT !.source_primary = "PubMed", !.sources_found_in = <<"PubMed">>,
        !.pmid = <<"p1">>, !.title = <<"t3">>, !.authors = <<<<"a1">>, <<"a2">>>>,
        !.journal = <<"j3">>, !.publication_year = 2022, !.rct_flag = TRUE,
        !.mesh_terms = <<<<"m3">>, <<"m1">>>>]

MergePool == {MergePubMed, MergeCrossref, MergeOpenAlex, MergeEuropePMC,
              MergeScopus, MergePubMedAgain}

MaxMerges == 3

\* Everything of deduplicate_records at rest.
DedupIdle ==
    /\ records = <<>> /\ doi_index = <<>> /\ pmid_index = <<>> /\ pmcid_index = <<>>
    /\ unmatched = <<>> /\ deduplicated = <<>> /\ merge_count = 0 /\ log = <<>>
    /\ pc = "loop" /\ result = <<>>

\* A candidate has been admitted as a canonical record.
InitMerge ==
    /\ DedupIdle
    /\ canonical \in MergePool
    /\ group = <<canonical>>
    /\ previous = canonical
    /\ DetectIdle
    /\ ClassifyIdle
    /\ RunIdle

\* canonical.merge_with(other)
MergeCandidate(other) ==
    /\ Len(group) <= MaxMerges
    /\ previous' = canonical
    /\ canonical' = merge_with(canonical, other)
    /\ group' = Append(group, other)
    /\ UNCHANGED <<dedup_vars, detect_vars, classify_vars, run>>

NextMerge == \E other \in MergePool : MergeCandidate(other)

MergeSpec == InitMerge /\ [][NextMerge]_vars

\* The values of field f over the group, candidate after candidate.
RECURSIVE all_values(_, _)
all_values(f, recs) ==
    IF recs = <<>> THEN <<>> ELSE Head(recs)[f] \o all_values(f, Tail(recs))

\* A list without its repetitions, each value at its first appearance.
RECURSIVE first_appearances(_)
first_appearances(lst) ==
    IF lst = <<>> THEN <<>>
    ELSE LET init == first_appearances(SubSeq(lst, 1, Len(lst) - 1))
             x == lst[Len(lst)]
         IN IF \E i \in 1..Len(init) : init[i] = x THEN init ELSE Append(init, x)

\* C11: sources_found_in of the canonical record holds every source name of
\* every candidate of its group exactly once, in order of first appearance,
\* and a candidate whose sources are all present leaves the list as it was.
C11_SourcesOrderedSet ==
    group # <<>> =>
        /\ canonical.sources_found_in
              = first_appearances(all_values("sources_found_in", group))
        /\ (Len(group) > 1
            /\ \A i \in 1..Len(group[Len(group)].sources_found_in) :
                  \E h \in 1..Len(previous.sources_found_in) :
                     previous.sources_found_in[h] = group[Len(group)].sources_found_in[i])
              => canonical.sources_found_in = previous.sources_found_in

\* Three sources met in the order PubMed, OpenAlex, PubMed, Crossref.
C11_Witness ==
    /\ Len(group) = 4
    /\ all_values("sources_found_in", group) = <<"PubMed", "OpenAlex", "PubMed", "Crossref">>
    /\ canonical.sources_found_in = <<"PubMed", "OpenAlex", "Crossref">>

\* The scalar identifiers and the scalar metadata fields.
ScalarFields ==
    {"pmid", "pmcid", "doi", "s2PaperId", "openalex_id", "crossref_doi", "scopus_id",
     "wos_id", "dimensions_id", "abstract", "journal", "issn", "publisher", "url",
     "language"}

\* The candidates of the group that supply a value for field f.
suppliers(f) == {i \in 1..Len(group) : ~Falsy(group[i][f])}

\* C12: a scalar identifier or metadata field is filled only when absent on
\* the canonical record and a present value is never overwritten: each field
\* holds the value of the first candidate of the group that supplied one.
C12_FillIfAbsent ==
    group # <<>> =>
        \A f \in ScalarFields :
            /\ ~Falsy(previous[f]) => canonical[f] = previous[f]
            /\ IF suppliers(f) = {} THEN canonical[f] = group[1][f]
               ELSE canonical[f]
                      = group[CHOOSE i \in suppliers(f) : \A h \in suppliers(f) : i <= h][f]

\* The last merge offered another journal, which was refused, and an
\* abstract, which filled an empty one.
C12_Witness ==
    /\ Len(group) > 1
    /\ ~Falsy(previous.journal) /\ ~Falsy(group[Len(group)].journal)
    /\ group[Len(group)].journal # previous.journal
    /\ canonical.journal = previous.journal
    /\ previous.abstract = <<>> /\ canonical.abstract = group[Len(group)].abstract
    /\ canonical.abstract # <<>>

\* The fields merge_with leaves alone.
CoreFields ==
    {"title", "authors", "rct_flag", "publication_date", "publication_year", "is_preprint"}

\* C13: merge_with never changes title, authors, RCT flag, publication date,
\* publication year or preprint flag of the canonical record, empty or not:
\* they are those of the first candidate of the group.
C13_CoreFieldsKept ==
    group # <<>> =>
        \A f \in CoreFields : canonical[f] = previous[f] /\ canonical[f] = group[1][f]

\* A canonical record without title, authors, date and year, not flagged, has
\* had candidates merged into it that have each of them.
C13_Witness ==
    /\ Len(group) > 2
    /\ canonical.title = <<>> /\ canonical.authors = <<>>
    /\ canonical.publication_year = 0 /\ canonical.publication_date = None
    /\ ~canonical.rct_flag /\ ~canonical.is_preprint
    /\ \E i, k \in 2..Len(group) :
          /\ group[i].title # <<>> /\ group[i].authors # <<>>
          /\ group[i].publication_year # 0 /\ group[i].publication_date # None
          /\ group[i].rct_flag /\ group[k].is_preprint

\* The same of deduplicate_records: every canonical record, and so every
\* returned record, has these fields as the candidate admitted as it had them.
ReturnedKeepFirstCandidate ==
    /\ \A j \in 1..Len(unmatched) :
          \A f \in {"title", "authors", "rct_flag", "publication_year"} :
              unmatched[j][f] = creator(j)[f]
    /\ \A i \in 1..Len(result) : \E j \in 1..Len(unmatched) : result[i] = unmatched[j]

\* The list-valued fields merge_with extends.
TermFields == {"mesh_terms", "keywords", "fields_of_study"}

no_duplicates(lst) == \A i, k \in 1..Len(lst) : lst[i] = lst[k] => i = k

is_prefix(a, b) == Len(a) <= Len(b) /\ SubSeq(b, 1, Len(a)) = a

\* C14: merging the same candidate a second time changes nothing, and the
\* term lists never hold a value twice: each keeps its order and gets the new
\* distinct values at its end.
C14_MergeIdempotent ==
    group # <<>> =>
        /\ \A other \in MergePool :
              merge_with(merge_with(canonical, other), other) = merge_with(canonical, other)
        /\ (Len(group) > 2 /\ group[Len(group)] = group[Len(group) - 1])
              => canonical = previous
        /\ \A f \in TermFields :
              /\ no_duplicates(canonical[f])
              /\ is_prefix(previous[f], canonical[f])
              /\ canonical[f] = first_appearances(all_values(f, group))

\* A candidate that brought a new MeSH term next to one already there has
\* been merged twice in a row.
C14_Witness ==
    /\ Len(group) > 2
    /\ group[Len(group)] = group[Len(group) - 1]
    /\ \E i, k \in 1..Len(group[Len(group)].mesh_terms) :
          /\ \E h \in 1..Len(group[1].mesh_terms) :
                group[1].mesh_terms[h] = group[Len(group)].mesh_terms[i]
          /\ \A h \in 1..Len(group[1].mesh_terms) :
                group[1].mesh_terms[h] # group[Len(group)].mesh_terms[k]
    /\ Len(canonical.mesh_terms) = Len(group[1].mesh_terms) + 1

\* C15: deduplicate_records never raises on well-typed input: whatever the
\* candidates' titles and author lists, an empty or blank first author
\* included, the loop runs to its end and a list is returned.
C15_NeverRaises == pc # "raised"

\* ------------------------------------------- detect_rct_from_text, one call

\* The calls: each combination of the titles, abstracts and keyword lists
\* below.
DetectCalls ==
    LET DetectTitles ==
        { <<>>,
        <<"A", " ", "Randomized", " ", "Controlled", " ", "Trial", " ", "of", " ", "X">>,
        <<"RANDOMISED", " ", " ", "controlled", " ", "trial">>,
        <<"randomized", " ", "controlled", " ", "trials">>,
        <<"nonrandomized", " ", "controlled", " ", "trial">>,
        <<"randomized", "-", "controlled", " ", "trial">>,
        <<"randomized", " ", "clinical", " ", "trial">>,
        <<"Retrospective", " ", "cohort">>,
        <<"placebo">>,
        <<"enrollment", ",", " ", "crossover">>,
        <<"X">> }

        DetectAbstracts ==
        { None, <<>>,
        <<"retrospective", " ", "cohort", " ", "study", ",", " ", "case", "-", "control">>,
        <<"study">>,
        <<"randomized", " ", "controlled", " ", "trial", " ", "retrospective", " ",
        "meta", " ", "analysis">>,
        <<"placebo", ",", " ", "double", "-", "blind">>,
        <<"placebo", " ", "enrollment", " ", "crossover">>,
        <<"Retrospective">>,
        <<"control", " ", "group", " ", "primary", " ", "outcome">> }

        DetectKeywords ==
        { None, <<>>,
        << <<"cohort", " ", "study">>, <<"retrospective">> >>,
        << <<"randomized">>, <<"placebo">> >>,
        << <<"meta", "-", "analysis">> >> }

    IN DetectTitles \X DetectAbstracts \X DetectKeywords

\* One call of detect_rct_from_text.
Detect(title, abstract, keywords) ==
    /\ detect_args = <<>>
    /\ detect_args' = [title |-> title, abstract |-> abstract, keywords |-> keywords]
    /\ detect_result' = detect_rct_from_text(title, abstract, keywords)
    /\ UNCHANGED <<dedup_vars, merge_vars, classify_vars, run>>

InitDetect == DedupIdle /\ MergeIdle /\ DetectIdle /\ ClassifyIdle /\ RunIdle

NextDetect == \E call \in DetectCalls : Detect(call[1], call[2], call[3])

DetectSpec == InitDetect /\ [][NextDetect]_vars

\* The title contains the phrase "randomized controlled trial" or "randomised
\* controlled trial": the three words, in any letter case, with nothing but
\* whitespace between them.
only_space_between(title, i, j) ==
    j > i + 1 /\ \A m \in (i + 1)..(j - 1) : title[m] = " "

has_rct_phrase(title) ==
    \E i, j, k \in 1..Len(title) :
        /\ lower_sym(title[i]) \in {"randomized", "randomised"}
        /\ lower_sym(title[j]) = "controlled"
        /\ lower_sym(title[k]) = "trial"
        /\ only_space_between(title, i, j) /\ only_space_between(title, j, k)

\* The negative patterns that match the text of the call.
negatives_matched ==
    Len(matching_patterns(NEGATIVE_PATTERNS,
            combined_text(detect_args.title, detect_args.abstract, detect_args.keywords)))

\* C16: when the title contains the phrase "randomized controlled trial" or
\* "randomised controlled trial", detect_rct_from_text returns true, however
\* many negative patterns match in title, abstract or keywords.
C16_TitleOverride ==
    (detect_args # <<>> /\ has_rct_phrase(detect_args.title)) => detect_result.is_rct

\* The British spelling in the title, against three negative patterns in
\* abstract and keywords.
C16_Witness ==
    /\ detect_args # <<>>
    /\ has_rct_phrase(detect_args.title)
    /\ \E i \in 1..Len(detect_args.title) : lower_sym(detect_args.title[i]) = "randomised"
    /\ negatives_matched >= 3
    /\ detect_args.keywords # None /\ detect_args.keywords # <<>>
    /\ detect_result.is_rct

\* C17: when two or more negative patterns match and the title does not
\* contain "randomized/randomised controlled trial", detect_rct_from_text
\* returns false, whatever strong, moderate or weak patterns match.
C17_NegativeGateFirst ==
    (detect_args # <<>> /\ negatives_matched >= 2 /\ ~has_rct_phrase(detect_args.title))
        => ~detect_result.is_rct

\* "randomized clinical trial" in the title and "randomized controlled trial"
\* in the abstract, next to two negative patterns.
C17_Witness ==
    /\ detect_args # <<>>
    /\ detect_args.title = <<"randomized", " ", "clinical", " ", "trial">>
    /\ detect_args.abstract # None
    /\ re_search(STRONG_RCT_PATTERNS[1], detect_args.abstract)
    /\ re_search(STRONG_RCT_PATTERNS[3], detect_args.title)
    /\ negatives_matched = 2
    /\ ~detect_result.is_rct

\* C18: when title and abstract are both empty, detect_rct_from_text returns
\* false with a non-empty rationale, whatever the keywords.
C18_NoText ==
    (detect_args # <<>> /\ Falsy(detect_args.title) /\ Falsy(detect_args.abstract))
        => (~detect_result.is_rct /\ detect_result.method # "")

\* An empty title and an empty abstract with keywords that match two
\* moderate patterns.
C18_Witness ==
    /\ detect_args # <<>>
    /\ detect_args.title = <<>> /\ detect_args.abstract = <<>>
    /\ detect_args.keywords = << <<"randomized">>, <<"placebo">> >>
    /\ Len(matching_patterns(MODERATE_RCT_PATTERNS,
              combined_text(<<>>, <<>>, detect_args.keywords))) >= 2
    /\ ~detect_result.is_rct

\* ------------------------------------------------- classify_topic, one call

\* Records for the call: each combination of the term lists, titles,
\* journals and abstracts below.
ClassifyPool ==
    LET cancer_tumor == w_cancer \o <<" ">> \o w_tumor
        heart_circulation == w_heart \o <<" ">> \o w_circulation
        heart_heart == w_heart \o <<" ">> \o w_heart
        records_of(ms, ks, fs, ts, js, as) ==
            { [RCTRecord EXCEPT !.mesh_terms = m, !.keywords = k, !.fields_of_study = f,
                                !.title = t, !.journal = j, !.abstract = a] :
                m \in ms, k \in ks, f \in fs, t \in ts, j \in js, a \in as }
    IN records_of({ <<>>, <<w_cancer>>, <<w_cancer, w_cardiac>>, <<w_cardiac_arrest>>,
                      <<w_adult, w_brain>> },
                  { <<>>, <<w_heart>>, <<w_tumor, w_trauma>> },
                  { <<>>, <<w_cancer>> },
                  { <<>>, w_cardiac_arrest, w_brain \o <<" ">> \o w_ms },
                  { None, Circulation, Lancet },
                  { None, w_heart \o <<" ">> \o w_cancer \o <<" ">> \o w_brain })
       \cup
       \* repeated list entries, an entry and a title with two terms of one
       \* specialty, a journal name with two keywords, a repeated abstract term
       records_of({ <<w_cancer, w_cancer>>, <<w_cancer, cancer_tumor>> },
                  { <<>>, <<w_tumor, w_trauma>> },
                  { <<>>, <<w_cancer>> },
                  { <<>>, cancer_tumor },
                  { None, heart_circulation },
                  { None, heart_heart })

\* One call of classify_topic.
Classify(record) ==
    /\ classify_record = <<>>
    /\ classify_record' = record
    /\ classify_result' = classify_topic(record)
    /\ UNCHANGED <<dedup_vars, merge_vars, detect_vars, run>>

InitClassify == DedupIdle /\ MergeIdle /\ DetectIdle /\ ClassifyIdle /\ RunIdle

NextClassify == \E record \in ClassifyPool : Classify(record)

ClassifySpec == InitClassify /\ [][NextClassify]_vars

\* The specialties and the score of each for the record of the call.
Specialty == {SPECIALTIES[i] : i \in 1..Len(SPECIALTIES)}

score_of(s) == score(classify_record, s)

\* The record's only evidence is one keyword that matches a specialty.
one_keyword_only ==
    /\ Len(classify_record.keywords) = 1
    /\ \E s \in Specialty : keyword_score(classify_record, s) > 0
    /\ classify_record.mesh_terms = <<>> /\ classify_record.fields_of_study = <<>>
    /\ classify_record.title = <<>> /\ classify_record.journal = None
    /\ classify_record.abstract = None

\* C19: classify_topic returns 'Other/Unclear' exactly when the maximum score
\* is below 4, with a rationale that is never empty: "no matching terms" when
\* every score is zero, otherwise the maximum and up to the three highest
\* non-zero scores; one keyword match alone (score 2) gives 'Other/Unclear'.
C19_BelowThreshold ==
    classify_record # <<>> =>
        LET quoted == top_scores(classify_record)
        IN /\ classify_result.topic = "Other/Unclear" <=> \A s \in Specialty : score_of(s) < 4
           /\ classify_result.reason # ""
           /\ classify_result.topic = "Other/Unclear" =>
                 /\ classify_result.reason = "no match" <=> \A s \in Specialty : score_of(s) = 0
                 /\ classify_result.reason # "no match" =>
                       /\ classify_result.reason = "below threshold"
                       /\ \A s \in Specialty : score_of(s) <= classify_result.max_score
                       /\ \E s \in Specialty : score_of(s) = classify_result.max_score
                       /\ Len(quoted) \in 1..3
                       /\ quoted[1][2] = classify_result.max_score
                       /\ \A i \in 1..Len(quoted) :
                             /\ quoted[i][2] = score_of(quoted[i][1]) /\ quoted[i][2] > 0
                             /\ \A k \in 1..Len(quoted) : i < k =>
                                   (quoted[i][1] # quoted[k][1] /\ quoted[i][2] >= quoted[k][2])
                       /\ \A s \in Specialty :
                             (\A i \in 1..Len(quoted) : quoted[i][1] # s) =>
                                 \/ score_of(s) = 0
                                 \/ Len(quoted) = 3 /\ score_of(s) <= quoted[3][2]
           /\ one_keyword_only =>
                 (classify_result.topic = "Other/Unclear" /\ classify_result.max_score = 2)

\* One keyword match and nothing else: score 2, 'Other/Unclear'.
C19_Witness ==
    /\ classify_record # <<>>
    /\ one_keyword_only
    /\ classify_result.topic = "Other/Unclear"
    /\ classify_result.reason = "below threshold"
    /\ top_scores(classify_record) = << <<"Cardiology", 2>> >>

\* The specialties at the maximum score.
tied == {s \in Specialty : \A o \in Specialty : score_of(o) <= score_of(s)}

\* C20: when two or more specialties tie at a maximum score that reaches the
\* threshold, the tied specialty that comes first in the preference list
\* Oncology, Cardiology, Neurology, ..., Emergency Medicine is returned, and
\* never Emergency Medicine.
C20_TieBreak ==
    (classify_record # <<>> /\ Cardinality(tied) >= 2
        /\ \E s \in tied : score_of(s) >= 4) =>
        /\ classify_result.topic \in tied
        /\ classify_result.topic # "Emergency Medicine"
        /\ classify_result.topic =
              (IF "Oncology" \in tied THEN "Oncology"
               ELSE IF "Cardiology" \in tied THEN "Cardiology"
               ELSE IF "Neurology" \in tied THEN "Neurology"
               ELSE "Emergency Medicine")

\* Oncology and Cardiology tie above the threshold: Oncology is returned,
\* though Cardiology comes first in the table.
C20_Witness ==
    /\ classify_record # <<>>
    /\ tied = {"Oncology", "Cardiology"}
    /\ score_of("Oncology") >= 4
    /\ SPECIALTIES[1] = "Cardiology"
    /\ classify_result.topic = "Oncology"

\* The record's only evidence is two MeSH terms, one matching Oncology and one
\* matching Cardiology.
two_mesh_terms_only ==
    /\ classify_record # <<>>
    /\ Len(classify_record.mesh_terms) = 2
    /\ Cardinality(matching_entries("Oncology", classify_record.mesh_terms)) = 1
    /\ Cardinality(matching_entries("Cardiology", classify_record.mesh_terms)) = 1
    /\ \A i \in 1..2 : ~_should_ignore_mesh(classify_record.mesh_terms[i])
    /\ classify_record.keywords = <<>> /\ classify_record.fields_of_study = <<>>
    /\ classify_record.title = <<>> /\ classify_record.journal = None
    /\ classify_record.abstract = None

\* C21 as stated: a record whose only evidence is one MeSH term matching
\* Oncology and one MeSH term matching Cardiology is classified Oncology.
C21_ScenarioIsOncology ==
    two_mesh_terms_only => classify_result.topic = "Oncology"

\* C21, amended: a record whose only evidence is one MeSH term matching
\* Oncology and one MeSH term matching Cardiology scores 3 for both, the
\* maximum, which is below the threshold of 4, and is classified
\* 'Other/Unclear' with both scores quoted.
C21_ScenarioBelowThreshold ==
    two_mesh_terms_only =>
        /\ score_of("Oncology") = 3 /\ score_of("Cardiology") = 3
        /\ tied = {"Oncology", "Cardiology"}
        /\ classify_result.topic = "Other/Unclear"
        /\ classify_result.reason = "below threshold"
        /\ classify_result.max_score = 3
        /\ top_scores(classify_record) = << <<"Cardiology", 3>>, <<"Oncology", 3>> >>

\* The scenario of C21 has been classified.
C21_Witness ==
    /\ two_mesh_terms_only
    /\ classify_record.mesh_terms = <<w_cancer, w_cardiac>>
    /\ classify_result.topic = "Other/Unclear"

\* The record of the call with every repeated value of its term lists listed
\* once.
listed_once ==
    [classify_record EXCEPT
        !.mesh_terms = first_appearances(classify_record.mesh_terms),
        !.keywords = first_appearances(classify_record.keywords),
        !.fields_of_study = first_appearances(classify_record.fields_of_study)]

\* C22: the MeSH, keyword and field-label weights are counted per distinct
\* matching term: a value listed more than once in mesh_terms, keywords or
\* fields_of_study changes no specialty's score (and so neither the maximum
\* nor the topic returned), and one list entry adds its weight to a specialty
\* at most once however many of the specialty's terms it matches.
C22_PerDistinctTerm ==
    classify_record # <<>> =>
        /\ \A s \in Specialty : score(listed_once, s) = score_of(s)
        /\ classify_topic(listed_once).max_score = classify_result.max_score
        /\ classify_topic(listed_once).topic = classify_result.topic
        /\ \A s \in Specialty :
              /\ mesh_score(classify_record, s) <= 3 * Len(classify_record.mesh_terms)
              /\ keyword_score(classify_record, s) <= 2 * Len(classify_record.keywords)
              /\ field_score(classify_record, s) <= 2 * Len(classify_record.fields_of_study)

\* The second half of C22 alone: one list entry adds its weight to a
\* specialty at most once.
OneEntryOneWeight ==
    classify_record # <<>> =>
        \A s \in Specialty :
            /\ mesh_score(classify_record, s) <= 3 * Len(classify_record.mesh_terms)
            /\ keyword_score(classify_record, s) <= 2 * Len(classify_record.keywords)
            /\ field_score(classify_record, s) <= 2 * Len(classify_record.fields_of_study)

\* Every ordering of the entries of a list.
orderings(lst) ==
    {[i \in 1..Len(lst) |-> lst[p[i]]] : p \in Permutations(1..Len(lst))}

\* The record of the call with its term lists in every order.
reordered ==
    {[classify_record EXCEPT !.mesh_terms = m, !.keywords = k, !.fields_of_study = f] :
        m \in orderings(classify_record.mesh_terms),
        k \in orderings(classify_record.keywords),
        f \in orderings(classify_record.fields_of_study)}

\* C23: classify_topic is order-independent: the topic returned for a record
\* is the topic returned for every record that differs from it only in the
\* order of the entries of mesh_terms, keywords and fields_of_study.
C23_OrderIndependent ==
    classify_record # <<>> =>
        \A r \in reordered : classify_topic(r).topic = classify_result.topic

\* Oncology and Cardiology tie at 5 for a record that lists the Oncology MeSH
\* term first; Oncology is returned for it and for the record that lists the
\* Cardiology MeSH term first.
C23_Witness ==
    /\ classify_record # <<>>
    /\ classify_record.mesh_terms = <<w_cancer, w_cardiac>>
    /\ tied = {"Oncology", "Cardiology"} /\ score_of("Oncology") = 5
    /\ [classify_record EXCEPT !.mesh_terms = <<w_cardiac, w_cancer>>] \in reordered
    /\ Cardinality(reordered) = 2
    /\ \A r \in reordered : classify_topic(r).topic = "Oncology"

\* ------------------------------------- deduplicate_records, the fuzzy scan

\* The canonical records admitted before input k, by position in unmatched.
admitted_before(k) == 1..Cardinality({h \in 1..(k - 1) : log[h].via = "new"})

\* Canonical record j carried an identifier when input k was processed.
carried_identifier(j, k) ==
    \E h \in 1..(k - 1) : log[h].into = j /\ has_identifier(records[h])

\* Input k and canonical record j satisfy the criteria of the fuzzy scan.
satisfies_criteria(k, j) ==
    /\ similar(records[k].title, creator(j).title)
    /\ ~year_blocks(records[k], creator(j))
    /\ ~author_blocks(records[k], creator(j))

\* C24 as stated: the fuzzy scan runs only against canonical records without
\* DOI, PMID and PMCID, so no candidate is merged by the fuzzy scan into a
\* canonical record that carries an identifier.
C24_FuzzyOnlyIntoIdentifierless ==
    \A k \in Inputs : log[k].via = "fuzzy" => ~carried_identifier(log[k].into, k)

\* C24, amended: the fuzzy scan runs against every previously admitted
\* canonical record, with or without an identifier: an identifier-less
\* candidate is admitted as new only when no record admitted before it
\* satisfies the criteria, and is otherwise merged into one that does.
C24_FuzzyAgainstEveryAdmitted ==
    \A k \in Inputs : fuzzy_attempted(k) =>
        /\ log[k].via = "new" <=> \A j \in admitted_before(k) : ~satisfies_criteria(k, j)
        /\ log[k].via = "fuzzy" =>
              (log[k].into \in admitted_before(k) /\ satisfies_criteria(k, log[k].into))

\* An identifier-less candidate was merged by the fuzzy scan into a canonical
\* record admitted with a DOI and a PMID.
C24_Witness ==
    \E k \in Inputs :
        /\ fuzzy_attempted(k) /\ log[k].via = "fuzzy"
        /\ ~Falsy(creator(log[k].into).doi) /\ ~Falsy(creator(log[k].into).pmid)
        /\ carried_identifier(log[k].into, k)

\* The trigram Jaccard similarity of input k's title to canonical record j's
\* is higher than its similarity to canonical record i's.
more_similar(k, j, i) ==
    LET a == title_similarity(records[k].title, creator(j).title)
        b == title_similarity(records[k].title, creator(i).title)
    IN a[1] * b[2] > b[1] * a[2]

\* C25: the fuzzy candidates are scanned in the order in which they were
\* admitted and the first that satisfies all criteria receives the merge:
\* when several admitted records satisfy them, the candidate is merged into
\* the earliest admitted one, whatever the similarities, and into no other.
C25_FirstAdmittedReceives ==
    /\ \A k \in Inputs : fuzzy_attempted(k) =>
          \A j \in admitted_before(k) :
              satisfies_criteria(k, j) =>
                  /\ log[k].via = "fuzzy"
                  /\ log[k].into <= j
                  /\ satisfies_criteria(k, log[k].into)
                  /\ \A i \in 1..(log[k].into - 1) : ~satisfies_criteria(k, i)
    /\ \A j \in 1..Len(unmatched) : unmatched[j] = merged_from(j, 1, RCTRecord)

\* Two admitted records satisfy the criteria for a candidate, the later one
\* with the higher title similarity: the candidate went to the earlier one.
C25_Witness ==
    \E k \in Inputs : \E i, j \in admitted_before(k) :
        /\ fuzzy_attempted(k) /\ i < j
        /\ satisfies_criteria(k, i) /\ satisfies_criteria(k, j)
        /\ more_similar(k, j, i)
        /\ log[k] = [via |-> "fuzzy", into |-> i]
        /\ unmatched[j] = creator(j)
        /\ unmatched[i] = merge_with(creator(i), records[k])

\* ------------------------------------ detect_rct_from_text, the positive rules

\* The number of patterns of a tier that match the text of the call.
matched(patterns) ==
    Len(matching_patterns(patterns,
            combined_text(detect_args.title, detect_args.abstract, detect_args.keywords)))

\* The negative gate fires: two or more negative patterns match and the
\* title does not carry the explicit phrase.
gate_fires == matched(NEGATIVE_PATTERNS) >= 2 /\ ~has_rct_phrase(detect_args.title)

\* The positive rule: a strong pattern, or two moderate patterns, or exactly
\* one moderate pattern and two weak ones.
positive_rule ==
    \/ matched(STRONG_RCT_PATTERNS) >= 1
    \/ matched(MODERATE_RCT_PATTERNS) >= 2
    \/ matched(MODERATE_RCT_PATTERNS) = 1 /\ matched(WEAK_RCT_PATTERNS) >= 2

\* C26 as stated: whenever the negative gate does not fire,
\* detect_rct_from_text returns true if and only if at least one strong
\* pattern matches, or at least two moderate patterns match, or exactly one
\* moderate pattern and at least two weak patterns match.
C26_PositiveRule ==
    (detect_args # <<>> /\ ~gate_fires) => (detect_result.is_rct <=> positive_rule)

\* C26, amended: when there is a title or an abstract and the negative gate
\* does not fire, detect_rct_from_text returns true if and only if at least
\* one strong pattern matches, or at least two moderate patterns match, or
\* exactly one moderate pattern and at least two weak patterns match; so weak
\* patterns alone and one moderate pattern with fewer than two weak ones give
\* false, and a single negative match changes nothing.
C26_PositiveRuleWithText ==
    (detect_args # <<>> /\ ~gate_fires
        /\ ~(Falsy(detect_args.title) /\ Falsy(detect_args.abstract))) =>
        /\ detect_result.is_rct <=> positive_rule
        /\ matched(MODERATE_RCT_PATTERNS) = 0 /\ matched(STRONG_RCT_PATTERNS) = 0
              => ~detect_result.is_rct
        /\ (matched(MODERATE_RCT_PATTERNS) = 1 /\ matched(WEAK_RCT_PATTERNS) < 2
              /\ matched(STRONG_RCT_PATTERNS) = 0) => ~detect_result.is_rct

\* One moderate pattern and two weak ones, no strong one, next to a single
\* negative match: true.
C26_Witness ==
    /\ detect_args # <<>>
    /\ ~Falsy(detect_args.title)
    /\ matched(NEGATIVE_PATTERNS) = 1
    /\ matched(STRONG_RCT_PATTERNS) = 0
    /\ matched(MODERATE_RCT_PATTERNS) = 1
    /\ matched(WEAK_RCT_PATTERNS) >= 2
    /\ detect_result = [is_rct |-> TRUE, method |-> "RCT signal with supporting evidence"]

\* ----------------------------------------------- classify_topic, the scores

\* The number of entries of a list for which `hit` holds.
count(entries, hit(_)) == Cardinality({i \in 1..Len(entries) : hit(entries[i])})

\* The score of specialty s as C27 states it, for the record of the call.
stated_score(s) ==
    LET matches_term(text) ==
            \E t \in MEDICAL_SPECIALTY_TERMS(s) : _is_word_match(t, text)
        mesh_hit(e) == ~_should_ignore_mesh(e) /\ matches_term(e)
        found_in(text) ==
            IF Falsy(text) THEN {}
            ELSE {t \in MEDICAL_SPECIALTY_TERMS(s) : _is_word_match(t, text)}
        journal_hit ==
            /\ ~Falsy(classify_record.journal)
            /\ \E k \in journal_keywords(s) :
                  is_substring(k, str_lower(classify_record.journal))
    IN 3 * count(classify_record.mesh_terms, mesh_hit)
       + 2 * count(classify_record.fields_of_study, matches_term)
       + 2 * count(classify_record.keywords, matches_term)
       + 2 * Cardinality(found_in(classify_record.title))
       + 1 * Cardinality(found_in(classify_record.abstract))
       + (IF journal_hit THEN 4 ELSE 0)

\* C27: for every specialty the score computed by classify_topic is
\* 3 x non-ignored matching MeSH entries + 2 x matching field labels
\* + 2 x matching keywords + 2 x its terms found in the title + 1 x its
\* distinct terms found in the abstract + 4 for a journal keyword in the
\* journal name; the maximum the function reports is the maximum of these,
\* and the cap of five stored matches never lowers a score.
C27_ScoreFormula ==
    classify_record # <<>> =>
        /\ \A s \in Specialty : score_of(s) = stated_score(s)
        /\ \A s \in Specialty : stated_score(s) <= classify_result.max_score
        /\ \E s \in Specialty : stated_score(s) = classify_result.max_score
        /\ classify_result.topic \in Specialty =>
              stated_score(classify_result.topic) = classify_result.max_score

\* A record for which the title scan found two Oncology terms when four
\* matches were stored, so that only one was stored, whose abstract repeats a
\* Cardiology term and whose journal name holds two Cardiology keywords: the
\* scores count both title terms, the abstract term once, the journal once.
C27_Witness ==
    /\ classify_record # <<>>
    /\ classify_record.mesh_terms = <<w_cancer, w_cancer \o <<" ">> \o w_tumor>>
    /\ classify_record.fields_of_study = <<w_cancer>>
    /\ classify_record.keywords = <<w_tumor, w_trauma>>
    /\ Cardinality(terms_in("Oncology", classify_record.title)) = 2
    /\ stored_matches(classify_record, "Oncology") = MAX_STORED_MATCHES
    /\ stated_score("Oncology") = 14
    /\ classify_record.abstract = w_heart \o <<" ">> \o w_heart
    /\ Cardinality({k \in journal_keywords("Cardiology") :
                       is_substring(k, str_lower(classify_record.journal))}) = 2
    /\ stated_score("Cardiology") = 5
    /\ classify_result.topic = "Oncology" /\ classify_result.max_score = 14

\* C28: a returned specialty other than 'Other/Unclear' has the maximum score
\* over all specialties, and that score is at least 4; when exactly one
\* specialty attains the maximum it is the one returned; the preference list
\* contains every specialty of the term table, so that a tie is always
\* settled by the preference list and never by the order of the table.
C28_ReturnedIsMaximal ==
    classify_record # <<>> =>
        LET top == tied
            returned == classify_result.topic
        IN /\ returned # "Other/Unclear" =>
                 /\ returned \in top
                 /\ score_of(returned) >= 4
                 /\ score_of(returned) = classify_result.max_score
                 /\ Cardinality(top) = 1 => top = {returned}
           /\ \A s \in Specialty : \E i \in 1..Len(specific_order) : specific_order[i] = s
           /\ classify_result.reason = "tied" =>
                 /\ Cardinality(top) >= 2
                 /\ \E i \in 1..Len(specific_order) :
                       /\ specific_order[i] = returned
                       /\ \A k \in 1..(i - 1) : specific_order[k] \notin top

\* Cardiology alone attains the maximum, which is exactly 4, and is returned.
C28_Witness ==
    /\ classify_record # <<>>
    /\ tied = {"Cardiology"}
    /\ score_of("Cardiology") = 4
    /\ \E s \in Specialty : s # "Cardiology" /\ score_of(s) > 0
    /\ classify_result = [topic |-> "Cardiology", reason |-> "clear", max_score |-> 4,
                          inputs_used |-> inputs_used(classify_record)]

\* ------------------------------- deduplicate_records applied to its output

\* deduplicate_records(result): the second application.
second_pass == deduplicate_records(result)

\* C29: deduplicate_records is idempotent on its own output: applied to the
\* list it returned, it performs no merge and returns as many records.
C29_IdempotentOnOutput ==
    pc = "done" =>
        /\ second_pass.st.pc # "raised"
        /\ second_pass.st.merge_count = 0
        /\ Len(second_pass.returned) = Len(result)

\* C29 for the runs whose output has no two records with a common
\* identifier: the second application performs no merge and returns the list
\* it was given.
IdempotentWhenIdentifiersDistinct ==
    (pc = "done"
        /\ \A i, j \in 1..Len(result) : i # j => ~share_identifier(result[i], result[j]))
        => /\ second_pass.st.pc # "raised"
           /\ second_pass.st.merge_count = 0
           /\ second_pass.returned = result

\* ------------------------------------------------------------- RCTFinder.run

\* classify_records: the topic fields it sets on each record, kept next to
\* the record (the reason by its kind).
classify_records(recs) ==
    [i \in 1..Len(recs) |->
        CHOOSE classified \in
            {[record |-> recs[i], topic |-> c.topic, classification_reason |-> c.reason,
              classification_inputs_used |-> c.inputs_used] :
                c \in {classify_topic(recs[i])}} : TRUE]

\* self.connectors by source_name, as _init_connectors builds it from the
\* `sources` of the configuration: one connector per entry, in its order, a
\* source named twice included.
ConnectorLists == { <<"PubMed", "Crossref", "OpenAlex">>, <<"PubMed", "PubMed">> }

\* What one call of connector.search_and_fetch may do: raise, or return a
\* list of records (RCTs, a record that is none, a preprint, a record without
\* identifiers whose only author is blank).
ConnectorOutcomes ==
    LET rct(r) == [r EXCEPT !.rct_flag = TRUE]
        preprint == [rct(RecDoiY) EXCEPT !.is_preprint = TRUE]
    IN { [raised |-> TRUE, records |-> <<>>],
         [raised |-> FALSE, records |-> <<>>],
         [raised |-> FALSE, records |-> <<RecA, RecB>>],
         [raised |-> FALSE, records |-> <<rct(RecC)>>],
         [raised |-> FALSE, records |-> <<preprint, rct(RecT10)>>],
         [raised |-> FALSE, records |-> <<rct(RecBlankAuthor)>>] }

\* RCTFinder(config) has been constructed: the connectors, the flag and the
\* statistics of __init__, and run() at its first statement.
InitRun ==
    /\ DedupIdle /\ MergeIdle /\ DetectIdle /\ ClassifyIdle
    /\ \E connectors \in ConnectorLists, include_preprints \in BOOLEAN :
          run = [pc |-> "query", connectors |-> connectors,
                 include_preprints |-> include_preprints, outcomes |-> <<>>,
                 all_records |-> <<>>, per_source |-> <<>>,
                 excluded |-> [not_rct |-> 0, preprint |-> 0],
                 total_retrieved |-> 0, deduplicated |-> 0, by_topic |-> <<>>,
                 classified |-> <<>>]

\* One iteration of `for connector in self.connectors`.
Query(outcome) ==
    /\ run # <<>> /\ run.pc = "query"
    /\ Len(run.outcomes) < Len(run.connectors)
    /\ LET source_name == run.connectors[Len(run.outcomes) + 1]
           rct_records == SelectSeq(outcome.records, LAMBDA r : r.rct_flag)
           non_rct_count == Len(outcome.records) - Len(rct_records)
           published == IF run.include_preprints THEN rct_records
                        ELSE SelectSeq(rct_records, LAMBDA r : ~r.is_preprint)
           preprint_count == Len(rct_records) - Len(published)
       IN run' = IF outcome.raised
                 THEN [run EXCEPT !.outcomes = Append(@, outcome),
                                  !.per_source = dict_set(@, source_name, 0)]
                 ELSE [run EXCEPT !.outcomes = Append(@, outcome),
                                  !.excluded.not_rct = @ + non_rct_count,
                                  !.excluded.preprint = @ + preprint_count,
                                  !.per_source = dict_set(@, source_name, Len(published)),
                                  !.all_records = @ \o published]
    /\ UNCHANGED <<dedup_vars, merge_vars, detect_vars, classify_vars>>

\* The statements after the loop: an exception of deduplicate_records leaves
\* run() with total_retrieved set and nothing returned.
Finish ==
    /\ run # <<>> /\ run.pc = "query"
    /\ Len(run.outcomes) = Len(run.connectors)
    /\ \E dedup \in {deduplicate_records(run.all_records)} :
          \E classified \in {classify_records(dedup.returned)} :
             run' = IF dedup.st.pc = "raised"
                    THEN [run EXCEPT !.pc = "raised",
                                     !.total_retrieved = Len(run.all_records)]
                    ELSE [run EXCEPT
                             !.pc = "done",
                             !.total_retrieved = Len(run.all_records),
                             !.deduplicated = Len(dedup.returned),
                             !.by_topic =
                                 [t \in {classified[i].topic : i \in 1..Len(classified)} |->
                                     Cardinality({i \in 1..Len(classified) :
                                                     classified[i].topic = t})],
                             !.classified = classified]
    /\ UNCHANGED <<dedup_vars, merge_vars, detect_vars, classify_vars>>

NextRun == (\E outcome \in ConnectorOutcomes : Query(outcome)) \/ Finish

RunSpec == InitRun /\ [][NextRun]_vars

\* The records a connector's list contributes: the RCTs, without the
\* preprints unless they are included.
contribution(i) ==
    IF run.outcomes[i].raised THEN <<>>
    ELSE SelectSeq(run.outcomes[i].records,
                   LAMBDA r : r.rct_flag /\ (run.include_preprints \/ ~r.is_preprint))

\* The contributions of the first n connectors, in connector order.
RECURSIVE contributions(_)
contributions(n) == IF n = 0 THEN <<>> ELSE contributions(n - 1) \o contribution(n)

\* The sum of the counts of a per-source table.
RECURSIVE sum_counts(_)
sum_counts(table) == IF table = <<>> THEN 0 ELSE Head(table)[2] + sum_counts(Tail(table))

\* run() has finished the loop and some connector raised.
connector_failed ==
    /\ run # <<>> /\ run.pc # "query"
    /\ \E i \in 1..Len(run.outcomes) : run.outcomes[i].raised

\* What C30 states of a run.
run_survives ==
    LET dedup == deduplicate_records(contributions(Len(run.connectors)))
    IN /\ run.pc = "done"
       /\ \A i \in 1..Len(run.outcomes) :
             run.outcomes[i].raised =>
                 (\/ dict_get(run.per_source, run.connectors[i]) = 0
                  \/ \E k \in (i + 1)..Len(run.outcomes) :
                        run.connectors[k] = run.connectors[i])
       /\ run.all_records = contributions(Len(run.connectors))
       /\ run.deduplicated = Len(dedup.returned)
       /\ Len(run.classified) = Len(dedup.returned)
       /\ \A i \in 1..Len(run.classified) :
             /\ run.classified[i].record = dedup.returned[i]
             /\ run.classified[i].topic = classify_topic(dedup.returned[i]).topic
       /\ run.total_retrieved = sum_counts(run.per_source)

\* C30: a connector whose search_and_fetch raises contributes no records and
\* gets a per-source count of 0 without stopping the run: the records of the
\* other connectors, in connector order, filtered to RCTs (and to
\* non-preprints unless preprints are included), are still deduplicated and
\* classified, and total_retrieved is the sum of the per-source counts.
C30_FailedConnectorSkipped == connector_failed => run_survives

\* C30 for the runs whose connectors have distinct names and whose records
\* deduplicate_records accepts without an exception.
FailedConnectorSkippedWhenDedupReturns ==
    (connector_failed
        /\ \A i, k \in 1..Len(run.connectors) :
              i # k => run.connectors[i] # run.connectors[k]
        /\ deduplicate_records(run.all_records).st.pc # "raised")
        => run_survives

====
